---- MODULE Spec2Model ----
(***************************************************************************)
(* Telemetry-link core of the nanosat ground-station controller.          *)
(*                                                                         *)
(* Two deployments of the link exist in the repository and are modelled   *)
(* side by side, selected by the variable `deployment`:                    *)
(*   "backend"    src/src/backend.py    JSON datagrams, 2 s liveness      *)
(*   "udp_bridge" src/src/udp_bridge.py text datagrams, 3 s liveness      *)
(*                                                                         *)
(* Beside the link: backend.send_command (the command dispatcher) and      *)
(* src/src/decoder.py (the binary frame codec and its TelemetryDecoder).   *)
(*                                                                         *)
(* Python threads interleave between bytecodes, so every access of the    *)
(* shared dictionary is one step of its thread.  Floats are kept in       *)
(* tenths (9.8 is 98); time is in whole seconds.                          *)
(***************************************************************************)
EXTENDS Integers, Sequences, FiniteSets, TLC

\* ------------------------------------------------------------- bounds
Epoch == 4          \* value of time.time() when the process starts
Slack == 1          \* seconds the clock runs on past the liveness timeout
MaxPackets == 3     \* datagrams delivered to the inbound socket

\* ------------------------------------------------- program constants
BackendTimeout == 2
BridgeTimeout == 3
MinFields == 5

Deployments == {"backend", "udp_bridge"}
Threads == {1, 2}
Readers == {1}

VARIABLES
    deployment,          \* which module runs in this process
    now,                 \* time.time()
    ground_state,        \* backend.py's shared dictionary
    current_telemetry,   \* udp_bridge.py's shared dictionary
    _listener_running,   \* udp_bridge.py's start-once flag
    startpc,             \* start_listener caller's position, per caller
    rxpc,                \* receiver thread's position, per thread
    rx_data,             \* datagram a receiver thread is processing (index)
    rx_step,             \* next write of the receiver thread
    port_owner,          \* thread holding the inbound port (0: nobody here)
    stop_signal,         \* a shutdown has been requested
    rdpc,                \* reader's position, per reader
    rd_late,             \* history: the read began after good_time + timeout, none decoded since
    rd_alone,            \* history: no datagram step and no tick since the read began
    rd_snap,             \* fields the reader has copied out of the dictionary
    rx_log,              \* history: "ok" or "bad" per datagram the receiver is through with
    ntimeout,            \* history: a receive timeout has happened
    good_time,           \* history: stamp of the last valid datagram applied
    good_tel,            \* history: telemetry after the last valid datagram
    hist,                \* history: telemetry held between receiver updates
    cmdpc,               \* send_command caller's position, per caller
    cmd_action,          \* cmd.action of the call in progress, per caller
    cmd_id,              \* history: number of the call in progress, per caller
    cmd_stage,           \* history: the statement whose exception the call caught
    cmd_listening,       \* whether anything is bound to the command port
    wire,                \* datagrams emitted to the network, in order
    cmd_log,             \* history: the calls that have returned, with their results
    packet_count,        \* TelemetryDecoder.packet_count
    decoded,             \* history: parse_frame calls that returned a frame
    frame,               \* the buffer at hand: built, then as the channel left it
    frame_in,            \* history: the field values frame was built from, if intact
    parsed,              \* what parse_frame returned for frame
    state,               \* sim_satellite.py's shared dictionary
    simpc,               \* run_simulation's position
    sun_intensity,       \* run_simulation's local of that name
    panel_open,          \* run_simulation: what line 84 read of the solar status
    lpc,                 \* command_listener's position
    command,             \* command_listener's local of that name
    sim_last,            \* history: the command the listener is through with, since the last one arrived
    heard,               \* history: the emitted datagrams the device has taken (indices of wire)
    swapped,             \* history: the device took a datagram before one emitted earlier
    air,                 \* telemetry datagrams sent to the backend and not yet received
    last_rx,             \* history: the device's state in the datagram the receiver took last
    hil_mode,            \* run_hil_telemetry: the page it drew last (status, solar_status)
    frontend,            \* frontend.py: the page it drew last (status, Power, PANELS)
    ppc,                 \* get_next_passes: its position
    events,              \* get_next_passes: zip(t, events) of line 29, as (gap since the one before, type)
    pass_i,              \* get_next_passes: how many of them the loop has been through
    current_pass,        \* get_next_passes: local of that name
    pass_list,           \* get_next_passes: local of that name
    tle_file,            \* the TLE cache file: whether it exists, its mtime, its bytes
    tpc,                 \* _update_tles: its position
    tle_clock,           \* time.time()
    tle_calls,           \* history: _update_tles calls begun
    should_download,     \* _update_tles: local of that name
    response,            \* _update_tles: local of that name
    tle_hist,            \* history of the call in progress or last made
    HAS_SDR,             \* radio_core.py's module attribute
    rpc,                 \* RadioCore: import, construction, or ready for calls
    mock_mode,           \* RadioCore.mock_mode
    sdr,                 \* RadioCore.sdr: None, or a device that is open or closed
    dev_freq,            \* the device's center_freq
    radio_log            \* history: how construction went and what the calls did

linkvars == <<deployment, now, ground_state, current_telemetry, _listener_running,
              startpc, rxpc, rx_data, rx_step, port_owner, stop_signal,
              rdpc, rd_late, rd_alone, rd_snap, rx_log, ntimeout, good_time, good_tel, hist>>

cmdvars == <<cmdpc, cmd_action, cmd_id, cmd_stage, cmd_listening, wire, cmd_log>>

codecvars == <<packet_count, decoded, frame, frame_in, parsed>>

simvars == <<state, simpc, sun_intensity, panel_open, lpc, command, sim_last,
             heard, swapped>>

uivars == <<hil_mode, frontend>>

\* What the device simulator never touches, beside link, dispatcher and codec.
passvars == <<ppc, events, pass_i, current_pass, pass_list>>

tlevars == <<tle_file, tpc, tle_clock, tle_calls, should_download, response, tle_hist>>

radiovars == <<HAS_SDR, rpc, mock_mode, sdr, dev_freq, radio_log>>

sidevars == <<uivars, passvars, tlevars, radiovars>>

\* Everything beside the link, the dispatcher, the codec and the datagrams in flight.
auxvars == <<simvars, sidevars>>

netvars == <<air, last_rx>>

vars == <<linkvars, cmdvars, codecvars, auxvars, netvars>>

\* ------------------------------------------------------ command dispatcher
MaxCalls == 2       \* send_command calls made

UDP_RX_PORT == 4210
UDP_TX_PORT == 4220

\* A dispatcher that sends to the port the receiver listens on.
CommandDest_Inbound == <<"127.0.0.1", UDP_RX_PORT>>

\* line 112: (UDP_IP, UDP_TX_PORT)
CommandDest == <<"127.0.0.1", UDP_TX_PORT>>
CmdCallers == {1, 2}

\* Action strings as sequences of code points.
LED_ON == <<76, 69, 68, 95, 79, 78>>
LED_OFF == <<76, 69, 68, 95, 79, 70, 70>>
DEPLOY_SOLAR == <<68, 69, 80, 76, 79, 89, 95, 83, 79, 76, 65, 82>>
RETRACT_SOLAR == <<82, 69, 84, 82, 65, 67, 84, 95, 83, 79, 76, 65, 82>>
AUTO_SOLAR == <<65, 85, 84, 79, 95, 83, 79, 76, 65, 82>>
PING == <<80, 73, 78, 71>>
CommandSet == {LED_ON, LED_OFF, DEPLOY_SOLAR, RETRACT_SOLAR, AUTO_SOLAR, PING}

\* The action strings the callers submit: a command of the set, and
\* unrecognized strings of two-byte, three-byte and unencodable code points.
ActionStrings == {LED_ON, <<233, 33>>, <<8364>>, <<55296>>}

Surrogates == 55296..57343

\* str.encode('utf-8') of one code point
Utf8Char(cp) ==
    IF cp < 128 THEN <<cp>>
    ELSE IF cp < 2048 THEN <<192 + (cp \div 64), 128 + (cp % 64)>>
    ELSE IF cp < 65536
         THEN <<224 + (cp \div 4096), 128 + ((cp \div 64) % 64), 128 + (cp % 64)>>
    ELSE <<240 + (cp \div 262144), 128 + ((cp \div 4096) % 64),
           128 + ((cp \div 64) % 64), 128 + (cp % 64)>>

RECURSIVE Utf8Encode(_)
Utf8Encode(str) ==
    IF str = <<>> THEN <<>> ELSE Utf8Char(Head(str)) \o Utf8Encode(Tail(str))

\* str.encode('utf-8') raises UnicodeEncodeError on a lone surrogate.
EncodeRaises(str) == \E i \in 1..Len(str) : str[i] \in Surrogates

\* A caller that forwards only the tokens of the command set.
Payload_Validated(action) ==
    IF action \in CommandSet THEN Utf8Encode(action) ELSE <<>>

\* line 112: the bytes handed to sendto
Payload(action) == Utf8Encode(action)

\* ------------------------------------------------- decoder.py: frame codec
\* Bytes are integers 0..255, strings are sequences of code points; volts and
\* amperes are kept in thousandths (8.00 V is 8000, 0.5 A is 500).
MaxParses == 2      \* frames parse_frame has accepted
MaxExtra == 1       \* bytes that follow a frame in its buffer

SyncWord == <<26, 207, 252, 29>>
FrameLen == 19
StringLen == 10

ALL_OK == <<65, 76, 76, 95, 79, 75>>

\* What a construct field reads from the stream: n bytes from pos, or
\* StreamError when the buffer ends before.
Take_Padded(raw, pos, n) ==
    [ok |-> TRUE,
     bytes |-> [i \in 1..n |-> IF pos + i - 1 <= Len(raw) THEN raw[pos + i - 1] ELSE 0]]

Take(raw, pos, n) ==
    IF pos + n - 1 <= Len(raw)
    THEN [ok |-> TRUE, bytes |-> SubSeq(raw, pos, pos + n - 1)]
    ELSE [ok |-> FALSE, bytes |-> <<>>]

\* Int16ub, written low byte first
Int16ubBuild_Little(v) == <<v % 256, v \div 256>>

\* Int16ub: big-endian unsigned 16 bits
Int16ubBuild(v) == <<v \div 256, v % 256>>

Int16ubParse(bs) == 256 * bs[1] + bs[2]

\* Int8ub
Int8ubBuild(v) == <<v>>

Int8ubParse(bs) == bs[1]

\* bytes.decode('utf-8'): width of the character a lead byte opens (0: none)
Utf8Width(b) ==
    IF b < 128 THEN 1
    ELSE IF b \in 194..223 THEN 2
    ELSE IF b \in 224..239 THEN 3
    ELSE IF b \in 240..244 THEN 4
    ELSE 0

RECURSIVE Utf8Valid(_)
Utf8Valid(bs) ==
    IF bs = <<>> THEN TRUE
    ELSE LET w == Utf8Width(bs[1])
         IN  /\ w > 0
             /\ Len(bs) >= w
             /\ \A i \in 2..w : bs[i] \in 128..191
             /\ (bs[1] = 224 => bs[2] >= 160)
             /\ (bs[1] = 237 => bs[2] <= 159)
             /\ (bs[1] = 240 => bs[2] >= 144)
             /\ (bs[1] = 244 => bs[2] <= 143)
             /\ Utf8Valid(SubSeq(bs, w + 1, Len(bs)))

RECURSIVE Utf8Decode(_)
Utf8Decode(bs) ==
    IF bs = <<>> THEN <<>>
    ELSE LET w == Utf8Width(bs[1])
             cp == CASE w = 1 -> bs[1]
                     [] w = 2 -> 64 * (bs[1] - 192) + (bs[2] - 128)
                     [] w = 3 -> 4096 * (bs[1] - 224) + 64 * (bs[2] - 128)
                                   + (bs[3] - 128)
                     [] w = 4 -> 262144 * (bs[1] - 240) + 4096 * (bs[2] - 128)
                                   + 64 * (bs[3] - 128) + (bs[4] - 128)
         IN  <<cp>> \o Utf8Decode(SubSeq(bs, w + 1, Len(bs)))

\* NullStripped: the trailing NUL bytes go, and only those
RECURSIVE NullStripped(_)
NullStripped(bs) ==
    IF bs # <<>> /\ bs[Len(bs)] = 0
    THEN NullStripped(SubSeq(bs, 1, Len(bs) - 1))
    ELSE bs

\* PaddedString(10, "utf-8").build: encode, then pad with NUL to 10 bytes
PaddedStringBuild(str) ==
    Utf8Encode(str) \o [i \in 1..(StringLen - Len(Utf8Encode(str))) |-> 0]

\* TelemetryPacket.build raises on a value its field cannot hold.
BuildRaises(x) ==
    \/ x.battery_voltage \notin 0..65535
    \/ x.panel_current \notin 0..65535
    \/ x.internal_temp \notin 0..255
    \/ EncodeRaises(x.status_msg)
    \/ Len(Utf8Encode(x.status_msg)) > StringLen

\* TelemetryPacket.build
Build(x) ==
    SyncWord \o Int16ubBuild(x.battery_voltage) \o Int16ubBuild(x.panel_current)
             \o Int8ubBuild(x.internal_temp) \o PaddedStringBuild(x.status_msg)

\* TelemetryPacket.parse: the fields in order, each reading from the stream
Parse(raw) ==
    LET sync == Take(raw, 1, 4)
        volt == Take(raw, 5, 2)
        amp == Take(raw, 7, 2)
        temp == Take(raw, 9, 1)
        text == Take(raw, 10, StringLen)
    IN  IF ~sync.ok THEN [error |-> "StreamError"]
        ELSE IF sync.bytes # SyncWord THEN [error |-> "ConstError"]
        ELSE IF ~volt.ok \/ ~amp.ok \/ ~temp.ok \/ ~text.ok
             THEN [error |-> "StreamError"]
        ELSE IF ~Utf8Valid(NullStripped(text.bytes)) THEN [error |-> "StringError"]
        ELSE [error |-> "none",
              battery_voltage |-> Int16ubParse(volt.bytes),
              panel_current |-> Int16ubParse(amp.bytes),
              internal_temp |-> Int8ubParse(temp.bytes),
              status_msg |-> Utf8Decode(NullStripped(text.bytes))]

None == [kind |-> "None"]
Unparsed == [kind |-> "unset"]
NoInput == [kind |-> "none"]

\* parse_frame's return value: the scaled fields, or None on any exception
ParseFrameResult(raw) ==
    LET data == Parse(raw)
    IN  IF data.error # "none" THEN None
        ELSE [kind |-> "dict",
              voltage |-> data.battery_voltage * 10,
              current |-> data.panel_current,
              temp |-> data.internal_temp - 20,
              msg |-> data.status_msg]

\* Field values handed to TelemetryPacket.build.
Messages ==
    { ALL_OK,
      ALL_OK \o <<32, 32, 32>>,
      <<>>,
      <<65, 0>>,
      <<233, 8364>>,
      <<65, 66, 67, 68, 69, 70, 71, 72, 73, 74>>,
      <<65, 66, 67, 68, 69, 70, 71, 72, 73, 74, 75>> }

Inputs ==
    [kind : {"fields"}, battery_voltage : {800, 65535},
     panel_current : {0, 500}, internal_temp : {55, 255},
     status_msg : Messages]

\* The values get_mock_packet draws: int(random.uniform(a, b)) is in a..b.
MockInputs ==
    [kind : {"mock"}, battery_voltage : {700, 840}, panel_current : {100, 500},
     internal_temp : {40, 60}, status_msg : {ALL_OK}]

\* ------------------------------------------------------------ datagrams
\* json.loads outcomes for the backend: the Python value a payload parses to.
StatusOff == [led |-> "OFF", solar |-> "RETRACTED", mode |-> "MANUAL"]
StatusOn == [led |-> "ON", solar |-> "DEPLOYED", mode |-> "AUTO"]
\* A status object no sender of the repository builds, but JSON can carry.
StatusOdd == [led |-> "BLINK", solar |-> "DEPLOYED", mode |-> "AUTO"]

\* -------------------------------------------- sim_satellite.py: the device
\* sun_intensity = 500 + 500 * sin(t * 0.05) sweeps 0..1000; the values kept
\* are those on either side of, and at, the two thresholds of the solar logic.
SunLevels == {298, 300, 400, 402}

DeployAbove == 400
RetractBelow == 300
PanelGain == 200

TELEM_PORT == 4210
COMMAND_PORT == 4220

\* lines 16-27
InitState ==
    [pitch |-> 0, roll |-> 0, yaw |-> 0, accel_z |-> 98, light |-> 0,
     status |-> StatusOff]

\* lines 68-69 at t = 0, in tenths: 10 * sin(0) and 45 * cos(0)
PitchNow == 0
RollNow == 450

Max(a, b) == IF a > b THEN a ELSE b

\* lines 84-87: the light sensor reading (sun_intensity * 0.5 of an even level)
LightOf(open, sun) ==
    IF open THEN Max(0, sun + PanelGain) ELSE Max(0, sun \div 2)

SimStatuses ==
    [led : {"OFF", "ON"}, solar : {"RETRACTED", "DEPLOYED"}, mode : {"MANUAL", "AUTO"}]

\* json.loads(json.dumps(state)): what the backend makes of a datagram of the device
SimPacket(st) ==
    [utf8 |-> TRUE, json |-> TRUE,
     value |-> [type |-> "dict",
                items |-> [pitch |-> st.pitch, roll |-> st.roll, yaw |-> st.yaw,
                           accel_z |-> st.accel_z, light |-> st.light,
                           status |-> st.status]]]

\* The states the device can be in when it sends.
SimStates ==
    [pitch : {PitchNow}, roll : {RollNow}, yaw : {0}, accel_z : {98},
     light : {LightOf(o, s) : o \in BOOLEAN, s \in SunLevels},
     status : SimStatuses]

RECURSIVE SeqOf(_)
SeqOf(S) ==
    IF S = {} THEN <<>>
    ELSE LET x == CHOOSE x \in S : TRUE IN <<x>> \o SeqOf(S \ {x})

SimDatagrams == SeqOf({SimPacket(st) : st \in SimStates})

BackendDatagrams ==
    << [utf8 |-> FALSE, json |-> FALSE, value |-> [type |-> "none"]],
       [utf8 |-> TRUE, json |-> FALSE, value |-> [type |-> "none"]],
       [utf8 |-> TRUE, json |-> TRUE, value |-> [type |-> "list"]],
       [utf8 |-> TRUE, json |-> TRUE,
        value |-> [type |-> "dict",
                   items |-> [pitch |-> 15, roll |-> 20, accel_z |-> 97,
                              light |-> 3, status |-> StatusOn]]],
       [utf8 |-> TRUE, json |-> TRUE,
        value |-> [type |-> "dict", items |-> [roll |-> 30, status |-> StatusOdd]]] >>

\* Text payloads for udp_bridge, one character per element.
BridgeDatagrams ==
    << [utf8 |-> FALSE, text |-> <<>>],
       [utf8 |-> TRUE,
        text |-> <<"S","A","T","2",",","1",",","2",",","3",",","9">>],
       [utf8 |-> TRUE, text |-> <<"S","A","T","1",",","1",",","2">>],
       [utf8 |-> TRUE,
        text |-> <<"S","A","T","1",",","1",".","5",",","x",",","3",",","9">>],
       [utf8 |-> TRUE,
        text |-> <<"S","A","T","1",",","1",".","5",",","-","2",",","3",",","9",".","7","\n">>] >>

\* What can arrive from anywhere: the payloads above.  What arrives from the
\* device: the datagrams it builds.
Arrivals == IF deployment = "backend" THEN BackendDatagrams ELSE BridgeDatagrams

Datagrams ==
    IF deployment = "backend" THEN BackendDatagrams \o SimDatagrams
    ELSE BridgeDatagrams

SimIndex(st) == CHOOSE i \in 1..Len(Datagrams) : Datagrams[i] = SimPacket(st)

\* ------------------------------------------------- text decoding (udp_bridge)
Whitespace == {" ", "\n", "\t", "\r"}
Digits == {"0", "1", "2", "3", "4", "5", "6", "7", "8", "9"}

DigitVal(c) ==
    CASE c = "0" -> 0 [] c = "1" -> 1 [] c = "2" -> 2 [] c = "3" -> 3
      [] c = "4" -> 4 [] c = "5" -> 5 [] c = "6" -> 6 [] c = "7" -> 7
      [] c = "8" -> 8 [] c = "9" -> 9

RECURSIVE LStrip(_)
LStrip(s) == IF s # <<>> /\ Head(s) \in Whitespace THEN LStrip(Tail(s)) ELSE s

RECURSIVE RStrip(_)
RStrip(s) ==
    IF s # <<>> /\ s[Len(s)] \in Whitespace
    THEN RStrip(SubSeq(s, 1, Len(s) - 1))
    ELSE s

\* str.strip()
Strip(s) == RStrip(LStrip(s))

\* str.split(','): always at least one part, empty parts kept
RECURSIVE SplitFrom(_, _, _)
SplitFrom(s, i, cur) ==
    IF i > Len(s) THEN <<cur>>
    ELSE IF s[i] = "," THEN <<cur>> \o SplitFrom(s, i + 1, <<>>)
    ELSE SplitFrom(s, i + 1, Append(cur, s[i]))

Split(s) == SplitFrom(s, 1, <<>>)

RECURSIVE DigitsValue(_)
DigitsValue(ds) ==
    IF ds = <<>> THEN 0
    ELSE 10 * DigitsValue(SubSeq(ds, 1, Len(ds) - 1)) + DigitVal(ds[Len(ds)])

AllDigits(ds) == \A i \in 1..Len(ds) : ds[i] \in Digits

Unsigned(tok) == IF tok # <<>> /\ Head(tok) \in {"-", "+"} THEN Tail(tok) ELSE tok

SignOf(tok) == IF tok # <<>> /\ Head(tok) = "-" THEN -1 ELSE 1

DotAt(body) ==
    IF \E i \in 1..Len(body) : body[i] = "."
    THEN CHOOSE i \in 1..Len(body) :
            body[i] = "." /\ \A j \in 1..(i - 1) : body[j] # "."
    ELSE 0

\* int(tok): surrounding whitespace allowed, optional sign, one digit or more
IntOk(tok) ==
    LET body == Unsigned(Strip(tok))
    IN  body # <<>> /\ AllDigits(body)

IntValue(tok) == SignOf(Strip(tok)) * DigitsValue(Unsigned(Strip(tok)))

\* float(tok) over the decimal notation: optional sign, digits with at most one
\* point, one digit or more.  The value is kept in tenths.
FloatOk(tok) ==
    LET body == Unsigned(Strip(tok))
        d == DotAt(body)
        ip == IF d = 0 THEN body ELSE SubSeq(body, 1, d - 1)
        fp == IF d = 0 THEN <<>> ELSE SubSeq(body, d + 1, Len(body))
    IN  /\ AllDigits(ip)
        /\ AllDigits(fp)
        /\ Len(ip) + Len(fp) >= 1

FloatValue(tok) ==
    LET body == Unsigned(Strip(tok))
        d == DotAt(body)
        ip == IF d = 0 THEN body ELSE SubSeq(body, 1, d - 1)
        fp == IF d = 0 THEN <<>> ELSE SubSeq(body, d + 1, Len(body))
    IN  SignOf(Strip(tok))
          * (10 * DigitsValue(ip) + (IF fp = <<>> THEN 0 ELSE DigitVal(fp[1])))

DeviceTag == <<"S", "A", "T", "1">>

\* message.split(',') of a decodable payload
PartsOf(d) == Split(Strip(d.text))

\* line 49: len(parts) >= 5 and parts[0] == "SAT1"
Accepted(parts) == Len(parts) >= MinFields /\ parts[1] = DeviceTag

\* ------------------------------------------------------------ link state
InitGroundState ==
    [connected |-> FALSE, last_packet_time |-> 0,
     telemetry |-> [pitch |-> 0, roll |-> 0, accel_z |-> 98, light |-> 0,
                    status |-> StatusOff]]

InitTelemetry ==
    [connected |-> FALSE, last_packet_time |-> 0, pitch |-> 0, roll |-> 0,
     yaw |-> 0, accel_z |-> 98, light |-> 0]

IsBackend == deployment = "backend"

Timeout == IF IsBackend THEN BackendTimeout ELSE BridgeTimeout

Connected == IF IsBackend THEN ground_state.connected ELSE current_telemetry.connected

LastPacketTime ==
    IF IsBackend THEN ground_state.last_packet_time
    ELSE current_telemetry.last_packet_time

\* The dictionary a reader is handed, as its values in the dictionary's order.
FlatBackend(gs) ==
    <<gs.connected, gs.last_packet_time, gs.telemetry.pitch, gs.telemetry.roll,
      gs.telemetry.accel_z, gs.telemetry.light, gs.telemetry.status>>

FlatBridge(ct) ==
    <<ct.connected, ct.last_packet_time, ct.pitch, ct.roll, ct.yaw, ct.accel_z,
      ct.light>>

FlatOf(gs, ct) == IF IsBackend THEN FlatBackend(gs) ELSE FlatBridge(ct)

Flat == FlatOf(ground_state, current_telemetry)

NumFields == 7

\* The telemetry values alone.
Tel(flat) == SubSeq(flat, 3, Len(flat))

\* ------------------------------------------------------- receiver's writes
BackendSteps == 7
BridgeSteps == 6

Get(items, key, default) == IF key \in DOMAIN items THEN items[key] ELSE default

\* backend.py lines 84-87 call packet.get, which only a dict has.
BackendRaises(k, v) == k \in 3..6 /\ v.type # "dict"

\* A receiver that keeps the status it has.
BackendWritten_KeepsStatus(gs, k, v, t) ==
    CASE k = 1 -> [gs EXCEPT !.last_packet_time = t]
      [] k = 2 -> [gs EXCEPT !.connected = TRUE]
      [] k = 3 -> [gs EXCEPT !.telemetry.pitch = Get(v.items, "pitch", 0)]
      [] k = 4 -> [gs EXCEPT !.telemetry.roll = Get(v.items, "roll", 0)]
      [] k = 5 -> [gs EXCEPT !.telemetry.accel_z = Get(v.items, "accel_z", 98)]
      [] k = 6 -> [gs EXCEPT !.telemetry.light = Get(v.items, "light", 0)]
      [] k = 7 -> gs

\* lines 81-89: the k-th store of the loop body
BackendWritten(gs, k, v, t) ==
    CASE k = 1 -> [gs EXCEPT !.last_packet_time = t]
      [] k = 2 -> [gs EXCEPT !.connected = TRUE]
      [] k = 3 -> [gs EXCEPT !.telemetry.pitch = Get(v.items, "pitch", 0)]
      [] k = 4 -> [gs EXCEPT !.telemetry.roll = Get(v.items, "roll", 0)]
      [] k = 5 -> [gs EXCEPT !.telemetry.accel_z = Get(v.items, "accel_z", 98)]
      [] k = 6 -> [gs EXCEPT !.telemetry.light = Get(v.items, "light", 0)]
      [] k = 7 -> IF "status" \in DOMAIN v.items
                  THEN [gs EXCEPT !.telemetry.status = v.items.status]
                  ELSE gs

\* udp_bridge.py lines 51-54 convert before they store.
BridgeRaises(k, parts) ==
    \/ k = 1 /\ ~FloatOk(parts[2])
    \/ k = 2 /\ ~FloatOk(parts[3])
    \/ k = 3 /\ ~IntOk(parts[4])
    \/ k = 4 /\ ~FloatOk(parts[5])

BridgeWritten(ct, k, parts, t) ==
    CASE k = 1 -> [ct EXCEPT !.pitch = FloatValue(parts[2])]
      [] k = 2 -> [ct EXCEPT !.roll = FloatValue(parts[3])]
      [] k = 3 -> [ct EXCEPT !.light = IntValue(parts[4])]
      [] k = 4 -> [ct EXCEPT !.accel_z = FloatValue(parts[5])]
      [] k = 5 -> [ct EXCEPT !.last_packet_time = t]
      [] k = 6 -> [ct EXCEPT !.connected = TRUE]

\* A loop whose except clause lets the exception end the thread.
OnException_Exits == "dead"

\* The except clauses of both loops print and go round again.
OnException == "loop"

\* except socket.timeout: pass
OnTimeout == "loop"

\* What both loops do once the body is through: while True.
AfterBody == "loop"

\* A payload the receiver's decoding accepts as a whole.
Decodable(d) ==
    IF IsBackend
    THEN d.utf8 /\ d.json /\ d.value.type = "dict"
    ELSE /\ d.utf8
         /\ Accepted(PartsOf(d))
         /\ \A k \in 1..4 : ~BridgeRaises(k, PartsOf(d))

\* ---------------------------------------------- solar status on the pages
\* A JSON value as Python holds it: its type and its text.
PyBool(b) == [type |-> "bool", repr |-> IF b THEN "True" ELSE "False"]
PyStr(s) == [type |-> "str", repr |-> s]

\* bool(v): False and the empty string are falsy, everything else here truthy
Truthy(v) == IF v.type = "bool" THEN v.repr = "True" ELSE v.repr # ""

\* v == True, v == False: a string equals neither
EqBool(v, b) == v = PyBool(b)

\* The status dictionaries a page may be handed: solar in either of its two
\* representations, or without the key.
SolarValues == {PyBool(TRUE), PyBool(FALSE), PyStr("DEPLOYED"), PyStr("RETRACTED")}
StatusDocs ==
    [led : {PyStr("ON"), PyStr("OFF")}, solar : SolarValues,
     mode : {PyStr("MANUAL"), PyStr("AUTO")}]
    \cup [led : {PyStr("ON"), PyStr("OFF")}, mode : {PyStr("MANUAL"), PyStr("AUTO")}]

\* hil_mode.py lines 100-105
SolarStatus(status) ==
    LET solar_raw == Get(status, "solar", PyStr("RETRACTED"))
    IN  IF EqBool(solar_raw, TRUE) THEN PyStr("DEPLOYED")
        ELSE IF EqBool(solar_raw, FALSE) THEN PyStr("RETRACTED")
        ELSE solar_raw

\* frontend.py line 82
SolarState(status) == Get(status, "solar", PyBool(FALSE))

\* frontend.py line 90
Power(status) == IF Truthy(SolarState(status)) THEN "Solar" ELSE "Battery"

\* frontend.py lines 111-114
Panels(status) ==
    IF Truthy(SolarState(status)) THEN "PANELS: OPEN" ELSE "PANELS: CLOSED"

\* No page has been drawn yet.
NoStatus == [led |-> PyStr(""), mode |-> PyStr("")]
NoHilPage == [drawn |-> FALSE, status |-> NoStatus, solar_status |-> PyStr("")]
NoFrontendPage == [drawn |-> FALSE, status |-> NoStatus, power |-> "", panels |-> ""]

\* ---------------------------------------------------------- the TLE cache
DaySeconds == 86400
HTTP_OK == 200

NoFile == [exists |-> FALSE, mtime |-> 0, content |-> ""]
NoResponse == [status_code |-> 0, content |-> ""]
NoCall ==
    [before |-> NoFile, at |-> 0, attempted |-> FALSE, got |-> "none",
     outcome |-> "none"]

\* ---------------------------------------------------------------- the radio
\* Nothing constructed, nothing called.
NoRadio ==
    [requested |-> FALSE, failed |-> "none", calls |-> 0, touched |-> FALSE,
     none_deref |-> FALSE, stopped |-> FALSE]

\* ------------------------------------------------------------------ Init
InitBase ==
    /\ deployment \in Deployments
    /\ now = Epoch
    /\ ground_state = InitGroundState
    /\ current_telemetry = InitTelemetry
    /\ _listener_running = FALSE
    /\ startpc = [c \in Threads |-> "idle"]
    /\ rxpc = [t \in Threads |->
                 IF deployment = "backend" /\ t = 1 THEN "bind" ELSE "none"]
    /\ rx_data = [t \in Threads |-> 0]
    /\ rx_step = [t \in Threads |-> 0]
    /\ port_owner = 0
    /\ stop_signal = FALSE
    /\ rdpc = [r \in Readers |-> "idle"]
    /\ rd_late = [r \in Readers |-> FALSE]
    /\ rd_alone = [r \in Readers |-> FALSE]
    /\ rd_snap = [r \in Readers |-> <<>>]
    /\ rx_log = <<>>
    /\ ntimeout = FALSE
    /\ good_time = 0
    /\ good_tel = IF deployment = "backend"
                  THEN Tel(FlatBackend(InitGroundState))
                  ELSE Tel(FlatBridge(InitTelemetry))
    /\ hist = {good_tel}
    /\ cmdpc = [c \in CmdCallers |-> "idle"]
    /\ cmd_action = [c \in CmdCallers |-> <<>>]
    /\ cmd_id = [c \in CmdCallers |-> 0]
    /\ cmd_stage = [c \in CmdCallers |-> "none"]
    /\ cmd_listening \in BOOLEAN
    /\ packet_count = 0
    /\ decoded = 0
    /\ frame = <<>>
    /\ frame_in = NoInput
    /\ parsed = Unparsed
    /\ state = InitState
    /\ simpc = "physics"
    /\ sun_intensity = 0
    /\ panel_open = FALSE
    /\ lpc = "recv"
    /\ command = <<>>
    /\ sim_last = <<>>
    /\ heard = {}
    /\ swapped = FALSE
    /\ air = {}
    /\ last_rx = NoInput
    /\ hil_mode = NoHilPage
    /\ frontend = NoFrontendPage
    /\ ppc = "idle"
    /\ events = <<>>
    /\ pass_i = 0
    /\ current_pass = <<>>
    /\ pass_list = <<>>
    /\ tle_file = NoFile
    /\ tpc = "idle"
    /\ tle_clock = 0
    /\ tle_calls = 0
    /\ should_download = FALSE
    /\ response = NoResponse
    /\ tle_hist = NoCall
    /\ HAS_SDR = FALSE
    /\ rpc = "import"
    /\ mock_mode = FALSE
    /\ sdr = "None"
    /\ dev_freq = 0
    /\ radio_log = NoRadio

\* Nothing has been dispatched yet.
Init ==
    /\ InitBase
    /\ wire = <<>>
    /\ cmd_log = <<>>

ghostvars == <<rx_log, ntimeout, good_time, good_tel, hist>>
readervars == <<rdpc, rd_late, rd_alone, rd_snap>>
startvars == <<_listener_running, startpc>>
statevars == <<ground_state, current_telemetry>>

\* ----------------------------------------------------------------- clock
Tick ==
    /\ now < Epoch + Timeout + Slack
    /\ now' = now + 1
    /\ rd_alone' = [r \in Readers |-> FALSE]
    /\ UNCHANGED <<cmdvars, codecvars, auxvars, netvars>>
    /\ UNCHANGED <<deployment, statevars, startvars, rxpc, rx_data, rx_step,
                   port_owner, stop_signal, rdpc, rd_late, rd_snap,
                   ghostvars>>

\* A shutdown is asked for (nothing in either module reads it).
RaiseStop ==
    /\ ~stop_signal
    /\ stop_signal' = TRUE
    /\ UNCHANGED <<cmdvars, codecvars, auxvars, netvars>>
    /\ UNCHANGED <<deployment, now, statevars, startvars, rxpc, rx_data, rx_step,
                   port_owner, readervars, ghostvars>>

\* ------------------------------------------------- udp_bridge.start_listener
\* if not _listener_running:
StartCheck(c) ==
    /\ ~IsBackend
    /\ startpc[c] = "idle"
    /\ rxpc[c] = "none"
    /\ startpc' = [startpc EXCEPT ![c] = IF _listener_running THEN "idle" ELSE "start"]
    /\ UNCHANGED <<cmdvars, codecvars, auxvars, netvars>>
    /\ UNCHANGED <<deployment, now, statevars, _listener_running, rxpc, rx_data,
                   rx_step, port_owner, stop_signal, readervars, ghostvars>>

\* t = threading.Thread(...); t.start()
StartThread(c) ==
    /\ startpc[c] = "start"
    /\ startpc' = [startpc EXCEPT ![c] = "flag"]
    /\ rxpc' = [rxpc EXCEPT ![c] = "bind"]
    /\ UNCHANGED <<cmdvars, codecvars, auxvars, netvars>>
    /\ UNCHANGED <<deployment, now, statevars, _listener_running, rx_data,
                   rx_step, port_owner, stop_signal, readervars, ghostvars>>

\* _listener_running = True
StartFlag(c) ==
    /\ startpc[c] = "flag"
    /\ startpc' = [startpc EXCEPT ![c] = "idle"]
    /\ _listener_running' = TRUE
    /\ UNCHANGED <<cmdvars, codecvars, auxvars, netvars>>
    /\ UNCHANGED <<deployment, now, statevars, rxpc, rx_data, rx_step,
                   port_owner, stop_signal, readervars, ghostvars>>

\* ------------------------------------------------------- receiver thread
\* socket.socket(...); sock.bind(...): an OSError here ends the thread.
RxBind(t) ==
    /\ rxpc[t] = "bind"
    /\ \/ /\ port_owner = 0
          /\ port_owner' = t
          /\ rxpc' = [rxpc EXCEPT ![t] = "loop"]
       \/ /\ rxpc' = [rxpc EXCEPT ![t] = "dead"]
          /\ UNCHANGED port_owner
    /\ UNCHANGED <<cmdvars, codecvars, auxvars, netvars>>
    /\ UNCHANGED <<deployment, now, statevars, startvars, rx_data, rx_step,
                   stop_signal, readervars, ghostvars>>

\* while True: ... sock.recvfrom(BUFFER_SIZE)
RxLoop(t) ==
    /\ rxpc[t] = "loop"
    /\ rxpc' = [rxpc EXCEPT ![t] = "recv"]
    /\ UNCHANGED <<cmdvars, codecvars, auxvars, netvars>>
    /\ UNCHANGED <<deployment, now, statevars, startvars, rx_data, rx_step,
                   port_owner, stop_signal, readervars, ghostvars>>

\* udp_bridge: sock.settimeout(1.0) makes recvfrom raise socket.timeout
RxTimeout(t) ==
    /\ ~IsBackend
    /\ rxpc[t] = "recv"
    /\ rxpc' = [rxpc EXCEPT ![t] = OnTimeout]
    /\ ntimeout' = TRUE
    /\ UNCHANGED <<cmdvars, codecvars, auxvars, netvars>>
    /\ UNCHANGED <<deployment, now, statevars, startvars, rx_data, rx_step,
                   port_owner, stop_signal, readervars,
                   rx_log, good_time, good_tel, hist>>

\* The history of outcomes keeps the last MaxPackets datagrams.
Logged(log, outcome) ==
    IF Len(log) < MaxPackets THEN Append(log, outcome)
    ELSE Append(Tail(log), outcome)

\* A datagram arrives: the decoding that touches no shared state.
\* backend: json.loads(data.decode('utf-8'))
\* udp_bridge: data.decode("utf-8").strip().split(','), then the test of line 49
RxTake(t, i) ==
    /\ rxpc[t] = "recv"
    /\ LET d == Datagrams[i]
           raises == IF IsBackend THEN ~d.utf8 \/ ~d.json ELSE ~d.utf8
           skipped == ~IsBackend /\ d.utf8 /\ ~Accepted(PartsOf(d))
       IN  IF raises \/ skipped
           THEN /\ rxpc' = [rxpc EXCEPT ![t] = IF raises THEN OnException ELSE AfterBody]
                /\ rx_log' = Logged(rx_log, "bad")
                /\ UNCHANGED <<rx_data, rx_step, rd_late>>
           ELSE /\ rxpc' = [rxpc EXCEPT ![t] = "write"]
                /\ rx_data' = [rx_data EXCEPT ![t] = i]
                /\ rx_step' = [rx_step EXCEPT ![t] = 1]
                /\ rd_late' = IF Decodable(d) THEN [r \in Readers |-> FALSE] ELSE rd_late
                /\ UNCHANGED rx_log
    /\ rd_alone' = [r \in Readers |-> FALSE]
    /\ UNCHANGED <<cmdvars, codecvars, auxvars>>
    /\ UNCHANGED <<deployment, now, statevars, startvars, port_owner,
                   stop_signal, rdpc, rd_snap, ntimeout, good_time, good_tel, hist>>

\* One of the datagrams of the table arrives at the inbound socket.
RxReceive(t, i) ==
    /\ Len(rx_log) + Cardinality({u \in Threads : rxpc[u] = "write"}) < MaxPackets
    /\ RxTake(t, i)
    /\ UNCHANGED netvars

\* One store into the shared dictionary, or the exception its right-hand side raises.
RxWrite(t) ==
    /\ rxpc[t] = "write"
    /\ LET d == Datagrams[rx_data[t]]
           k == rx_step[t]
           raises == IF IsBackend THEN BackendRaises(k, d.value)
                     ELSE BridgeRaises(k, PartsOf(d))
           last == k = (IF IsBackend THEN BackendSteps ELSE BridgeSteps)
       IN  /\ IF raises
              THEN UNCHANGED statevars
              ELSE IF IsBackend
                   THEN /\ ground_state' = BackendWritten(ground_state, k, d.value, now)
                        /\ UNCHANGED current_telemetry
                   ELSE /\ current_telemetry' =
                              BridgeWritten(current_telemetry, k, PartsOf(d), now)
                        /\ UNCHANGED ground_state
           /\ IF raises \/ last
              THEN /\ rxpc' = [rxpc EXCEPT ![t] = IF raises THEN OnException ELSE AfterBody]
                   /\ rx_data' = [rx_data EXCEPT ![t] = 0]
                   /\ rx_step' = [rx_step EXCEPT ![t] = 0]
                   /\ hist' = hist \cup {Tel(FlatOf(ground_state', current_telemetry'))}
                   /\ rx_log' = Logged(rx_log, IF raises THEN "bad" ELSE "ok")
              ELSE /\ rx_step' = [rx_step EXCEPT ![t] = k + 1]
                   /\ UNCHANGED <<rxpc, rx_data, hist, rx_log>>
           /\ IF last /\ ~raises
              THEN /\ good_time' = FlatOf(ground_state', current_telemetry')[2]
                   /\ good_tel' = Tel(FlatOf(ground_state', current_telemetry'))
              ELSE UNCHANGED <<good_time, good_tel>>
    /\ rd_alone' = [r \in Readers |-> FALSE]
    /\ UNCHANGED <<cmdvars, codecvars, auxvars, netvars>>
    /\ UNCHANGED <<deployment, now, startvars, port_owner, stop_signal,
                   rdpc, rd_late, rd_snap, ntimeout>>

\* ------------------------------------------- get_status / get_latest_data
\* time.time() - last_packet_time > timeout
Stale(t, last, timeout) == t - last > timeout

ReadCheck(r) ==
    /\ rdpc[r] = "idle"
    /\ rd_late' = [rd_late EXCEPT ![r] =
                     /\ now > good_time + Timeout
                     /\ \A t \in Threads :
                          rxpc[t] = "write" => ~Decodable(Datagrams[rx_data[t]])]
    /\ rd_alone' = [rd_alone EXCEPT ![r] = \A t \in Threads : rxpc[t] # "write"]
    /\ rdpc' = [rdpc EXCEPT ![r] =
                  IF Stale(now, LastPacketTime, Timeout) THEN "set" ELSE "ret"]
    /\ UNCHANGED <<cmdvars, codecvars, auxvars, netvars>>
    /\ UNCHANGED <<deployment, now, statevars, startvars, rxpc, rx_data, rx_step,
                   port_owner, stop_signal, rd_snap, ghostvars>>

\* ...["connected"] = False
ReadSet(r) ==
    /\ rdpc[r] = "set"
    /\ rdpc' = [rdpc EXCEPT ![r] = "ret"]
    /\ IF IsBackend
       THEN /\ ground_state' = [ground_state EXCEPT !.connected = FALSE]
            /\ UNCHANGED current_telemetry
       ELSE /\ current_telemetry' = [current_telemetry EXCEPT !.connected = FALSE]
            /\ UNCHANGED ground_state
    /\ UNCHANGED <<cmdvars, codecvars, auxvars, netvars>>
    /\ UNCHANGED <<deployment, now, startvars, rxpc, rx_data, rx_step,
                   port_owner, stop_signal, rd_late, rd_alone, rd_snap, ghostvars>>

\* return ground_state / return current_telemetry: the dictionary itself
ReadReturn(r) ==
    /\ rdpc[r] = "ret"
    /\ rdpc' = [rdpc EXCEPT ![r] = "copy"]
    /\ UNCHANGED <<cmdvars, codecvars, auxvars, netvars>>
    /\ UNCHANGED <<deployment, now, statevars, startvars, rxpc, rx_data, rx_step,
                   port_owner, stop_signal, rd_late, rd_alone, rd_snap,
                   ghostvars>>

\* The same return, for a caller that does not go on to read the fields.
ReadFinish(r) ==
    /\ rdpc[r] = "ret"
    /\ rdpc' = [rdpc EXCEPT ![r] = "idle"]
    /\ rd_late' = [rd_late EXCEPT ![r] = FALSE]
    /\ rd_alone' = [rd_alone EXCEPT ![r] = FALSE]
    /\ UNCHANGED <<cmdvars, codecvars, auxvars, netvars>>
    /\ UNCHANGED <<deployment, now, statevars, startvars, rxpc, rx_data, rx_step,
                   port_owner, stop_signal, rd_snap, ghostvars>>

\* The caller reads the returned dictionary one key at a time.
ReadField(r) ==
    /\ rdpc[r] = "copy"
    /\ rd_snap' = [rd_snap EXCEPT ![r] = Append(@, Flat[Len(@) + 1])]
    /\ rdpc' = [rdpc EXCEPT ![r] =
                  IF Len(rd_snap[r]) + 1 = NumFields THEN "done" ELSE "copy"]
    /\ UNCHANGED <<cmdvars, codecvars, auxvars, netvars>>
    /\ UNCHANGED <<deployment, now, statevars, startvars, rxpc, rx_data, rx_step,
                   port_owner, stop_signal, rd_late, rd_alone, ghostvars>>

ReadDone(r) ==
    /\ rdpc[r] = "done"
    /\ rdpc' = [rdpc EXCEPT ![r] = "idle"]
    /\ rd_late' = [rd_late EXCEPT ![r] = FALSE]
    /\ rd_alone' = [rd_alone EXCEPT ![r] = FALSE]
    /\ rd_snap' = [rd_snap EXCEPT ![r] = <<>>]
    /\ UNCHANGED <<cmdvars, codecvars, auxvars, netvars>>
    /\ UNCHANGED <<deployment, now, statevars, startvars, rxpc, rx_data, rx_step,
                   port_owner, stop_signal, ghostvars>>

\* get_status / get_latest_data up to its return
Read(r) ==
    \/ ReadCheck(r)
    \/ ReadSet(r)
    \/ ReadFinish(r)

\* The call and the caller's reading of what it returned
ReadAndCopy(r) ==
    \/ ReadCheck(r)
    \/ ReadSet(r)
    \/ ReadReturn(r)
    \/ ReadField(r)
    \/ ReadDone(r)

Rx(t) ==
    \/ RxBind(t)
    \/ RxLoop(t)
    \/ RxTimeout(t)
    \/ \E i \in 1..Len(Arrivals) : RxReceive(t, i)
    \/ RxWrite(t)

Callers == {1}

StartListener(c) ==
    \/ StartCheck(c)
    \/ StartThread(c)
    \/ StartFlag(c)

Next ==
    \/ Tick
    \/ \E c \in Callers : StartListener(c)
    \/ \E t \in Threads : Rx(t)
    \/ \E r \in Readers : Read(r)

Spec == Init /\ [][Next]_vars

\* The receiver and a caller that reads every field of what it is handed.
NextObserve ==
    \/ \E c \in Callers : StartListener(c)
    \/ \E t \in Threads : Rx(t)
    \/ \E r \in Readers : ReadAndCopy(r)

SpecObserve == Init /\ [][NextObserve]_vars

\* The receiver alone, with a shutdown request that may arrive at any time.
NextStop ==
    \/ RaiseStop
    \/ Tick
    \/ \E c \in Callers : StartListener(c)
    \/ \E t \in Threads : Rx(t)

SpecStop == Init /\ [][NextStop]_vars

\* start_listener called from several threads of the process, and the
\* receiver threads those calls start.
StartCallers == {1, 2}

NextStart ==
    \/ \E c \in StartCallers : StartListener(c)
    \/ \E t \in Threads : Rx(t)

SpecStart == Init /\ [][NextStart]_vars

\* --------------------------------------------------- backend.send_command
linkstate == <<deployment, now, statevars, startvars, rxpc, rx_data, rx_step,
               port_owner, stop_signal, readervars, ghostvars, codecvars,
               auxvars, netvars>>

\* POST /command arrives with an action string.
CmdCall(c, a) ==
    /\ cmdpc[c] = "idle"
    /\ Len(cmd_log) + Cardinality({u \in CmdCallers : cmdpc[u] # "idle"}) < MaxCalls
    /\ cmdpc' = [cmdpc EXCEPT ![c] = "socket"]
    /\ cmd_action' = [cmd_action EXCEPT ![c] = a]
    /\ cmd_id' = [cmd_id EXCEPT ![c] =
                    Len(cmd_log) + Cardinality({u \in CmdCallers : cmdpc[u] # "idle"}) + 1]
    /\ UNCHANGED <<cmd_stage, cmd_listening, wire, cmd_log, linkstate>>

\* sock = socket.socket(AF_INET, SOCK_DGRAM): a new socket, or OSError
CmdSocket(c) ==
    /\ cmdpc[c] = "socket"
    /\ \E failed \in BOOLEAN :
          /\ cmdpc' = [cmdpc EXCEPT ![c] = IF failed THEN "error" ELSE "sendto"]
          /\ cmd_stage' = [cmd_stage EXCEPT ![c] = IF failed THEN "socket" ELSE @]
    /\ UNCHANGED <<cmd_action, cmd_id, cmd_listening, wire, cmd_log, linkstate>>

\* sock.sendto(cmd.action.encode('utf-8'), (UDP_IP, UDP_TX_PORT)): one datagram
\* handed to the network, or an exception of encode or of the send.
CmdSendto(c) ==
    /\ cmdpc[c] = "sendto"
    /\ \E failed \in BOOLEAN :
          IF failed \/ EncodeRaises(cmd_action[c])
          THEN /\ cmdpc' = [cmdpc EXCEPT ![c] = "error"]
               /\ cmd_stage' = [cmd_stage EXCEPT ![c] = "sendto"]
               /\ UNCHANGED wire
          ELSE /\ cmdpc' = [cmdpc EXCEPT ![c] = "print"]
               /\ wire' = Append(wire, [dest |-> CommandDest,
                                        payload |-> Payload(cmd_action[c]),
                                        call |-> cmd_id[c]])
               /\ UNCHANGED cmd_stage
    /\ UNCHANGED <<cmd_action, cmd_id, cmd_listening, cmd_log, linkstate>>

\* print(f"[COMMAND SENT] {cmd.action}"), inside the try: the write to stdout
\* goes through, or raises (stdout closed, or an encoding of stdout that has
\* no character for the action) and the except clause takes over.
CmdPrint(c) ==
    /\ cmdpc[c] = "print"
    /\ \E failed \in BOOLEAN :
          /\ cmdpc' = [cmdpc EXCEPT ![c] = IF failed THEN "error" ELSE "success"]
          /\ cmd_stage' = [cmd_stage EXCEPT ![c] = IF failed THEN "print" ELSE @]
    /\ UNCHANGED <<cmd_action, cmd_id, cmd_listening, wire, cmd_log, linkstate>>

\* return {"status": "success", ...} / return {"status": "error", ...}
CmdReturn(c) ==
    /\ cmdpc[c] \in {"success", "error"}
    /\ cmd_log' = Append(cmd_log, [call |-> cmd_id[c], action |-> cmd_action[c],
                                   status |-> cmdpc[c], stage |-> cmd_stage[c]])
    /\ cmdpc' = [cmdpc EXCEPT ![c] = "idle"]
    /\ cmd_action' = [cmd_action EXCEPT ![c] = <<>>]
    /\ cmd_id' = [cmd_id EXCEPT ![c] = 0]
    /\ cmd_stage' = [cmd_stage EXCEPT ![c] = "none"]
    /\ UNCHANGED <<cmd_listening, wire, linkstate>>

SendCommand(c) ==
    \/ \E a \in ActionStrings : CmdCall(c, a)
    \/ CmdSocket(c)
    \/ CmdSendto(c)
    \/ CmdPrint(c)
    \/ CmdReturn(c)

NextCmd == \E c \in CmdCallers : SendCommand(c)

SpecCmd == Init /\ [][NextCmd]_vars

\* ------------------------------------------------------ TelemetryDecoder
\* TelemetryPacket.build(dict(...)) of given field values; a value a field
\* cannot hold raises and leaves no frame.
BuildFrame(x) ==
    /\ IF BuildRaises(x)
       THEN frame' = <<>> /\ frame_in' = NoInput
       ELSE frame' = Build(x) /\ frame_in' = x
    /\ parsed' = Unparsed
    /\ UNCHANGED <<packet_count, decoded, linkvars, cmdvars, auxvars, netvars>>

\* get_mock_packet: random raw values, message ALL_OK
GetMockPacket(x) ==
    /\ frame' = Build(x)
    /\ frame_in' = x
    /\ parsed' = Unparsed
    /\ UNCHANGED <<packet_count, decoded, linkvars, cmdvars, auxvars, netvars>>

\* What the channel does to a buffer before parse_frame sees it.
TruncLens == {0, 3, 4, 8, 18}

Truncate(n) ==
    /\ n < Len(frame)
    /\ frame' = SubSeq(frame, 1, n)
    /\ frame_in' = NoInput
    /\ parsed' = Unparsed
    /\ UNCHANGED <<packet_count, decoded, linkvars, cmdvars, auxvars, netvars>>

AlterSync(i) ==
    /\ i <= Len(frame)
    /\ frame[i] = SyncWord[i]
    /\ frame' = [frame EXCEPT ![i] = (@ + 1) % 256]
    /\ frame_in' = NoInput
    /\ parsed' = Unparsed
    /\ UNCHANGED <<packet_count, decoded, linkvars, cmdvars, auxvars, netvars>>

\* A byte of the text field becomes one that no UTF-8 text holds.
Garble ==
    /\ Len(frame) >= StringLen
    /\ frame[StringLen] # 255
    /\ frame' = [frame EXCEPT ![StringLen] = 255]
    /\ frame_in' = NoInput
    /\ parsed' = Unparsed
    /\ UNCHANGED <<packet_count, decoded, linkvars, cmdvars, auxvars, netvars>>

\* Bytes follow the frame in the buffer.
Extend ==
    /\ Len(frame) >= FrameLen
    /\ Len(frame) < FrameLen + MaxExtra
    /\ frame' = Append(frame, 7)
    /\ parsed' = Unparsed
    /\ UNCHANGED <<frame_in, packet_count, decoded, linkvars, cmdvars, auxvars, netvars>>

\* parse_frame(raw_bytes)
ParseFrame_CountsAll ==
    /\ packet_count < MaxParses
    /\ parsed' = ParseFrameResult(frame)
    /\ packet_count' = packet_count + 1
    /\ decoded' = IF parsed' = None THEN decoded ELSE decoded + 1
    /\ UNCHANGED <<frame, frame_in, linkvars, cmdvars, auxvars, netvars>>
ParseFrame ==
    /\ packet_count < MaxParses
    /\ parsed' = ParseFrameResult(frame)
    /\ packet_count' = IF ParseFrameResult(frame) = None
                       THEN packet_count ELSE packet_count + 1
    /\ decoded' = IF parsed' = None THEN decoded ELSE decoded + 1
    /\ UNCHANGED <<frame, frame_in, linkvars, cmdvars, auxvars, netvars>>

NextCodec ==
    \/ \E x \in Inputs : BuildFrame(x)
    \/ \E x \in MockInputs : GetMockPacket(x)
    \/ \E n \in TruncLens : Truncate(n)
    \/ \E i \in {1, 4} : AlterSync(i)
    \/ Garble
    \/ Extend
    \/ ParseFrame

\* The decoder on its own: the link and the dispatcher stay as they start.
InitCodec == Init /\ deployment = "backend" /\ ~cmd_listening

SpecCodec == InitCodec /\ [][NextCodec]_vars

\* ------------------------------------------- sim_satellite.command_listener
\* str.strip() over code points: the ASCII and Latin-1 whitespace
WhitespaceCp == {9, 10, 11, 12, 13, 28, 29, 30, 31, 32, 133, 160}

RECURSIVE LStripCp(_)
LStripCp(str) ==
    IF str # <<>> /\ Head(str) \in WhitespaceCp THEN LStripCp(Tail(str)) ELSE str

RECURSIVE RStripCp(_)
RStripCp(str) ==
    IF str # <<>> /\ str[Len(str)] \in WhitespaceCp
    THEN RStripCp(SubSeq(str, 1, Len(str) - 1))
    ELSE str

StripCp(str) == RStripCp(LStripCp(str))

\* A device that has no LED commands.
Stores_NoLed(cmd) ==
    IF cmd \in {DEPLOY_SOLAR, RETRACT_SOLAR} THEN 2
    ELSE IF cmd = AUTO_SOLAR THEN 1
    ELSE 0

\* lines 41-54: how many stores into state["status"] a command makes
Stores(cmd) ==
    IF cmd \in {DEPLOY_SOLAR, RETRACT_SOLAR} THEN 2
    ELSE IF cmd \in {LED_ON, LED_OFF, AUTO_SOLAR} THEN 1
    ELSE 0

\* A handler whose panel commands leave the mode alone.
Applied_KeepsMode(status, cmd, k) ==
    CASE cmd = LED_ON /\ k = 1 -> [status EXCEPT !.led = "ON"]
      [] cmd = LED_OFF /\ k = 1 -> [status EXCEPT !.led = "OFF"]
      [] cmd = DEPLOY_SOLAR /\ k = 1 -> [status EXCEPT !.solar = "DEPLOYED"]
      [] cmd = RETRACT_SOLAR /\ k = 1 -> [status EXCEPT !.solar = "RETRACTED"]
      [] cmd = AUTO_SOLAR /\ k = 1 -> [status EXCEPT !.mode = "AUTO"]
      [] OTHER -> status

\* lines 41-52: state["status"] after the k-th store of a command
Applied(status, cmd, k) ==
    CASE cmd = LED_ON /\ k = 1 -> [status EXCEPT !.led = "ON"]
      [] cmd = LED_OFF /\ k = 1 -> [status EXCEPT !.led = "OFF"]
      [] cmd = DEPLOY_SOLAR /\ k = 1 -> [status EXCEPT !.solar = "DEPLOYED"]
      [] cmd = DEPLOY_SOLAR /\ k = 2 -> [status EXCEPT !.mode = "MANUAL"]
      [] cmd = RETRACT_SOLAR /\ k = 1 -> [status EXCEPT !.solar = "RETRACTED"]
      [] cmd = RETRACT_SOLAR /\ k = 2 -> [status EXCEPT !.mode = "MANUAL"]
      [] cmd = AUTO_SOLAR /\ k = 1 -> [status EXCEPT !.mode = "AUTO"]
      [] OTHER -> status

\* Payloads that reach the command port from anywhere: the six commands, a
\* command with a line end, part of a command, a command in lower case, and
\* bytes that are no UTF-8.
SimPayloads ==
    {Utf8Encode(c) : c \in CommandSet}
        \cup {Utf8Encode(LED_ON) \o <<13, 10>>, <<76, 69, 68>>,
              <<108, 101, 100, 95, 111, 110>>, <<255>>}

\* The commands the operator sends when backend and device run together.
LedCommands == {LED_ON, LED_OFF}

\* Every payload the command port sees.
WirePayloads ==
    SimPayloads
        \cup {Payload(a) : a \in {x \in ActionStrings \cup LedCommands : ~EncodeRaises(x)}}

\* line 38 for each of them: whether data.decode('utf-8') goes through, and
\* the stripped text if it does.
Decoding ==
    [p \in WirePayloads |->
        [ok |-> Utf8Valid(p),
         text |-> IF Utf8Valid(p) THEN StripCp(Utf8Decode(p)) ELSE <<>>]]

loopvars == <<simpc, sun_intensity, panel_open>>
notsim == <<linkvars, cmdvars, codecvars, sidevars>>

\* data, _ = sock.recvfrom(1024); command = data.decode('utf-8').strip()
\* A payload that is no UTF-8 raises, and the except clause goes round again.
\* The print of line 39 raises only for a command stdout cannot encode, which
\* is no command of lines 41-53 either.
SimHear(payload) ==
    /\ lpc = "recv"
    /\ IF Decoding[payload].ok
       THEN /\ command' = Decoding[payload].text
            /\ sim_last' = <<>>
            /\ lpc' = IF Stores(Decoding[payload].text) = 0 THEN "done" ELSE "first"
       ELSE UNCHANGED <<command, sim_last, lpc>>
    /\ UNCHANGED <<state, loopvars, netvars, notsim>>

\* the first store of lines 42-52
SimFirst ==
    /\ lpc = "first"
    /\ state' = [state EXCEPT !.status = Applied(@, command, 1)]
    /\ lpc' = IF Stores(command) = 2 THEN "second" ELSE "done"
    /\ UNCHANGED <<command, sim_last, heard, swapped, loopvars, netvars, notsim>>

\* lines 47 and 50
SimSecond ==
    /\ lpc = "second"
    /\ state' = [state EXCEPT !.status = Applied(@, command, 2)]
    /\ lpc' = "done"
    /\ UNCHANGED <<command, sim_last, heard, swapped, loopvars, netvars, notsim>>

\* the if chain is through (PING prints); while True
SimDone ==
    /\ lpc = "done"
    /\ lpc' = "recv"
    /\ sim_last' = command
    /\ command' = <<>>
    /\ UNCHANGED <<state, heard, swapped, loopvars, netvars, notsim>>

\* A datagram from anywhere arrives at the command port.
SimCmd(payload) ==
    /\ SimHear(payload)
    /\ UNCHANGED <<heard, swapped>>

CommandListener ==
    \/ SimFirst
    \/ SimSecond
    \/ SimDone

\* --------------------------------------------- sim_satellite.run_simulation
listenervars == <<lpc, command, sim_last, heard, swapped>>

\* lines 68-73: pitch, roll and the sun of this round
SimPhysics(sun) ==
    /\ simpc = "physics"
    /\ state' = [state EXCEPT !.pitch = PitchNow, !.roll = RollNow]
    /\ sun_intensity' = sun
    /\ simpc' = "mode"
    /\ UNCHANGED <<panel_open, listenervars, netvars, notsim>>

\* line 76: if state["status"]["mode"] == "AUTO"
SimMode ==
    /\ simpc = "mode"
    /\ simpc' = IF state.status.mode = "AUTO" THEN "solar" ELSE "sense"
    /\ UNCHANGED <<state, sun_intensity, panel_open, listenervars, netvars, notsim>>

\* lines 78-81
SimSolar ==
    /\ simpc = "solar"
    /\ state' = IF sun_intensity > DeployAbove
                THEN [state EXCEPT !.status.solar = "DEPLOYED"]
                ELSE IF sun_intensity < RetractBelow
                     THEN [state EXCEPT !.status.solar = "RETRACTED"]
                     ELSE state
    /\ simpc' = "sense"
    /\ UNCHANGED <<sun_intensity, panel_open, listenervars, netvars, notsim>>

\* line 84: if state["status"]["solar"] == "DEPLOYED"
SimSense ==
    /\ simpc = "sense"
    /\ panel_open' = (state.status.solar = "DEPLOYED")
    /\ simpc' = "light"
    /\ UNCHANGED <<state, sun_intensity, listenervars, netvars, notsim>>

\* lines 85 and 87
SimLight ==
    /\ simpc = "light"
    /\ state' = [state EXCEPT !.light = LightOf(panel_open, sun_intensity)]
    /\ simpc' = "send"
    /\ UNCHANGED <<sun_intensity, panel_open, listenervars, netvars, notsim>>

\* lines 90-96: json.dumps(state) in one call of the C encoder, then sendto;
\* the datagram is in flight when the backend holds the port, and gone
\* otherwise.  The locals of the round are dead from here.
SimSend ==
    /\ simpc = "send"
    /\ air' = IF IsBackend /\ port_owner # 0 THEN air \cup {state} ELSE air
    /\ simpc' = "physics"
    /\ sun_intensity' = 0
    /\ panel_open' = FALSE
    /\ UNCHANGED <<state, listenervars, last_rx, notsim>>

RunSimulation ==
    \/ SimMode
    \/ SimSolar
    \/ SimSense
    \/ SimLight
    \/ SimSend

\* The device on its own, with commands arriving from anywhere.
NextSim ==
    \/ \E sun \in SunLevels : SimPhysics(sun)
    \/ RunSimulation
    \/ \E payload \in SimPayloads : SimCmd(payload)
    \/ CommandListener

InitSim == Init /\ deployment = "backend" /\ cmd_listening

SpecSim == InitSim /\ [][NextSim]_vars

\* ------------------------------------- backend, network and device together
\* The device takes one of the datagrams send_command has emitted; UDP hands
\* them over in any order.
SimTake(i) ==
    /\ cmd_listening
    /\ i \in 1..Len(wire)
    /\ i \notin heard
    /\ wire[i].dest = <<"127.0.0.1", COMMAND_PORT>>
    /\ SimHear(wire[i].payload)
    /\ heard' = heard \cup {i}
    /\ swapped' = (swapped \/ \E j \in 1..(i - 1) : j \notin heard)

\* The backend's receiver takes one of the device's datagrams in flight.
RxFromAir(t, st) ==
    /\ port_owner = t
    /\ st \in air
    /\ RxTake(t, SimIndex(st))
    /\ air' = air \ {st}
    /\ last_rx' = st

\* The hour of the run: the sun stays above both thresholds.
Daylight == 402

\* What the device sends in this run: MANUAL, panels closed, the LED either way.
OnAir ==
    {st \in SimStates :
        /\ st.status.mode = "MANUAL"
        /\ st.status.solar = "RETRACTED"
        /\ st.light = LightOf(FALSE, Daylight)}

\* What two calls of send_command that went through leave behind: two
\* datagrams in the network and two entries of the log.
Emitted(a, k) == [dest |-> CommandDest, payload |-> Payload(a), call |-> k]

LogEntry(a, k) == [call |-> k, action |-> a, status |-> "success", stage |-> "none"]

\* The operator has dispatched LED_ON and LED_OFF, in either order; the device
\* and the backend's receiver start.
InitLink ==
    /\ InitBase
    /\ deployment = "backend"
    /\ cmd_listening
    /\ \E a, b \in LedCommands :
          /\ a # b
          /\ wire = <<Emitted(a, 1), Emitted(b, 2)>>
          /\ cmd_log = <<LogEntry(a, 1), LogEntry(b, 2)>>

\* LED commands make one store, and the device stays in MANUAL, so its loop
\* goes from line 76 to line 84.
NextLink ==
    \/ \E i \in 1..2 : SimTake(i)
    \/ SimFirst
    \/ SimDone
    \/ SimPhysics(Daylight)
    \/ SimMode
    \/ SimSense
    \/ SimLight
    \/ SimSend
    \/ RxBind(1)
    \/ RxLoop(1)
    \/ \E st \in OnAir : RxFromAir(1, st)
    \/ RxWrite(1)

\* The scheduling the threads get: each of the three loops keeps running, and
\* a datagram in flight is taken by the loop that waits for it (none is lost).
FairLink ==
    /\ WF_vars(SimPhysics(Daylight) \/ SimMode \/ SimSense \/ SimLight \/ SimSend)
    /\ WF_vars(SimFirst \/ SimDone)
    /\ \A i \in 1..2 : SF_vars(SimTake(i))
    /\ WF_vars(RxBind(1) \/ RxLoop(1) \/ RxWrite(1))
    /\ \A st \in OnAir : SF_vars(RxFromAir(1, st))

SpecLink == InitLink /\ [][NextLink]_vars /\ FairLink

\* The dispatcher and the receiver of one backend process: an operator who
\* sends LED commands while the device's datagrams come in.
NextShared ==
    \/ \E a \in LedCommands : CmdCall(1, a)
    \/ CmdSocket(1)
    \/ CmdSendto(1)
    \/ CmdPrint(1)
    \/ CmdReturn(1)
    \/ RxBind(1)
    \/ RxLoop(1)
    \/ \E st \in OnAir : RxReceive(1, SimIndex(st))
    \/ RxWrite(1)

InitShared == Init /\ deployment = "backend" /\ cmd_listening

SpecShared == InitShared /\ [][NextShared]_vars

\* ---------------------------------------------------------- the two pages
notui == <<linkvars, cmdvars, codecvars, simvars, netvars, passvars, tlevars, radiovars>>

\* hil_mode.py run_hil_telemetry, handed a telemetry document with this status
run_hil_telemetry(status) ==
    /\ hil_mode' = [drawn |-> TRUE, status |-> status,
                    solar_status |-> SolarStatus(status)]
    /\ UNCHANGED <<frontend, notui>>

\* frontend.py, one run of the script on a telemetry document with this status
FrontendRun(status) ==
    /\ frontend' = [drawn |-> TRUE, status |-> status,
                    power |-> Power(status), panels |-> Panels(status)]
    /\ UNCHANGED <<hil_mode, notui>>

NextPages ==
    \/ \E status \in StatusDocs : run_hil_telemetry(status)
    \/ \E status \in StatusDocs : FrontendRun(status)

SpecPages == Init /\ [][NextPages]_vars

\* ---------------------------------------------------------- pass predictor
MaxEvents == 4      \* events find_events returns for the window

RISE == 0
CULMINATE == 1
SET == 2

\* Seconds between one event and the next, and the altitudes line 40 may find.
Gaps == {45, 600}
Altitudes == {10, 45}

\* What find_events may return: times in ascending order, each with its type.
EventLists ==
    UNION {[1..n -> Gaps \X {RISE, CULMINATE, SET}] : n \in 0..MaxEvents}

\* time_obj of the i-th event, in seconds since t0
RECURSIVE TimeOf(_, _)
TimeOf(evs, i) == IF i = 0 THEN 0 ELSE TimeOf(evs, i - 1) + evs[i][1]

\* d[k] = v
Put(d, k, v) == [x \in DOMAIN d \cup {k} |-> IF x = k THEN v ELSE d[x]]

\* time_obj.utc_iso(), and the f-string of line 52
UtcIso(time) == [iso |-> time]
DurationStr(duration_sec) ==
    [m |-> duration_sec \div 60, s |-> duration_sec % 60]

\* Lines 31-54: the loop body on one event; alt is what line 40 computes.
AfterEvent_NoReset(cp, pl, time_obj, event_type, alt) ==
    IF event_type = RISE
    THEN [current_pass |-> Put(Put(cp, "aos", time_obj), "aos_iso", UtcIso(time_obj)),
          pass_list |-> pl]
    ELSE IF event_type = CULMINATE
    THEN [current_pass |-> Put(Put(cp, "tca", time_obj), "max_el", alt),
          pass_list |-> pl]
    ELSE IF event_type = SET
    THEN LET lost == Put(Put(cp, "los", time_obj), "los_iso", UtcIso(time_obj))
         IN  IF "aos" \in DOMAIN lost
             THEN [current_pass |-> lost,
                   pass_list |->
                       Append(pl, Put(lost, "duration_str",
                                      DurationStr(lost.los - lost.aos)))]
             ELSE [current_pass |-> lost, pass_list |-> pl]
    ELSE [current_pass |-> cp, pass_list |-> pl]
AfterEvent(cp, pl, time_obj, event_type, alt) ==
    IF event_type = RISE
    THEN [current_pass |-> Put(Put(cp, "aos", time_obj), "aos_iso", UtcIso(time_obj)),
          pass_list |-> pl]
    ELSE IF event_type = CULMINATE
    THEN [current_pass |-> Put(Put(cp, "tca", time_obj), "max_el", alt),
          pass_list |-> pl]
    ELSE IF event_type = SET
    THEN LET lost == Put(Put(cp, "los", time_obj), "los_iso", UtcIso(time_obj))
         IN  IF "aos" \in DOMAIN lost
             THEN [current_pass |-> <<>>,
                   pass_list |->
                       Append(pl, Put(lost, "duration_str",
                                      DurationStr(lost.los - lost.aos)))]
             ELSE [current_pass |-> <<>>, pass_list |-> pl]
    ELSE [current_pass |-> cp, pass_list |-> pl]

notpass == <<linkvars, cmdvars, codecvars, simvars, netvars, uivars, tlevars, radiovars>>

\* lines 19-27: find_events, pass_list = [], current_pass = {}
PassFind(evs) ==
    /\ ppc = "idle"
    /\ ppc' = "loop"
    /\ events' = evs
    /\ pass_i' = 0
    /\ current_pass' = <<>>
    /\ pass_list' = <<>>
    /\ UNCHANGED notpass

\* lines 29-54: one round of the loop
PassEvent(alt) ==
    /\ ppc = "loop"
    /\ pass_i < Len(events)
    /\ LET i == pass_i + 1
           after == AfterEvent(current_pass, pass_list,
                               TimeOf(events, i), events[i][2], alt)
       IN  /\ pass_i' = i
           /\ current_pass' = after.current_pass
           /\ pass_list' = after.pass_list
    /\ UNCHANGED <<ppc, events, notpass>>

\* line 56
PassReturn ==
    /\ ppc = "loop"
    /\ pass_i = Len(events)
    /\ ppc' = "done"
    /\ UNCHANGED <<events, pass_i, current_pass, pass_list, notpass>>

get_next_passes ==
    \/ ppc = "idle" /\ \E evs \in EventLists : PassFind(evs)
    \/ \E alt \in Altitudes : PassEvent(alt)
    \/ PassReturn

InitPass == Init /\ deployment = "backend" /\ cmd_listening

SpecPass == InitPass /\ [][get_next_passes]_vars

\* ------------------------------------------------------------ _update_tles
MaxTleCalls == 3    \* _update_tles calls made

\* Seconds between one start of the program and the next.
Waits == {0, 1, DaySeconds - 1, DaySeconds, DaySeconds + 1}

\* What CelesTrak may answer.
Responses == [status_code : {HTTP_OK, 404, 500}, content : {"tle_1", "tle_2"}]

\* lines 54-67: should_download, for this file at this time
ShouldDownload_AtDay(file, time) ==
    IF ~file.exists THEN TRUE
    ELSE LET file_age == time - file.mtime
         IN  file_age >= DaySeconds
ShouldDownload(file, time) ==
    IF ~file.exists THEN TRUE
    ELSE LET file_age == time - file.mtime
         IN  file_age > DaySeconds

nottle == <<linkvars, cmdvars, codecvars, simvars, netvars, uivars, passvars, radiovars>>

\* OrbitEngine.__init__ line 34, wait seconds after the call before
TleCall(wait) ==
    /\ tpc = "idle"
    /\ tle_calls < MaxTleCalls
    /\ tle_calls' = tle_calls + 1
    /\ tle_clock' = tle_clock + wait
    /\ tpc' = "check"
    /\ should_download' = FALSE
    /\ response' = NoResponse
    /\ tle_hist' = [NoCall EXCEPT !.before = tle_file, !.at = tle_clock']
    /\ UNCHANGED <<tle_file, nottle>>

\* lines 57-69
TleCheck ==
    /\ tpc = "check"
    /\ should_download' = ShouldDownload(tle_file, tle_clock)
    /\ tpc' = IF should_download' THEN "get" ELSE "idle"
    /\ tle_hist' = IF should_download' THEN tle_hist
                   ELSE [tle_hist EXCEPT !.outcome = "returned"]
    /\ UNCHANGED <<tle_file, tle_clock, tle_calls, response, nottle>>

\* line 71: requests.get answers
TleGet(resp) ==
    /\ tpc = "get"
    /\ response' = resp
    /\ tpc' = "status"
    /\ tle_hist' = [tle_hist EXCEPT !.attempted = TRUE, !.got = "response"]
    /\ UNCHANGED <<tle_file, tle_clock, tle_calls, should_download, nottle>>

\* line 71: requests.get raises (no route, timeout, ...)
TleGetRaises ==
    /\ tpc = "get"
    /\ tpc' = "except"
    /\ tle_hist' = [tle_hist EXCEPT !.attempted = TRUE, !.got = "exception"]
    /\ UNCHANGED <<tle_file, tle_clock, tle_calls, should_download, response, nottle>>

\* lines 72-77; written is whether f.write went through after open truncated
TleStore(written) ==
    /\ tpc = "status"
    /\ IF response.status_code = HTTP_OK
       THEN /\ tle_file' = [exists |-> TRUE, mtime |-> tle_clock,
                            content |-> IF written THEN response.content ELSE ""]
            /\ tpc' = IF written THEN "idle" ELSE "except"
       ELSE /\ written
            /\ tle_file' = tle_file
            /\ tpc' = "idle"
    /\ tle_hist' = IF tpc' = "idle" THEN [tle_hist EXCEPT !.outcome = "returned"]
                   ELSE tle_hist
    /\ UNCHANGED <<tle_clock, tle_calls, should_download, response, nottle>>

\* lines 78-79: the handler prints, and the method returns
TleExcept ==
    /\ tpc = "except"
    /\ tpc' = "idle"
    /\ tle_hist' = [tle_hist EXCEPT !.outcome = "returned"]
    /\ UNCHANGED <<tle_file, tle_clock, tle_calls, should_download, response, nottle>>

_update_tles ==
    \/ \E wait \in Waits : TleCall(wait)
    \/ TleCheck
    \/ \E resp \in Responses : TleGet(resp)
    \/ TleGetRaises
    \/ \E written \in BOOLEAN : TleStore(written)
    \/ TleExcept

InitTle == Init /\ deployment = "backend" /\ cmd_listening

SpecTle == InitTle /\ [][_update_tles]_vars

\* --------------------------------------------------------------- RadioCore
MaxRadioCalls == 4  \* calls made on the constructed RadioCore

\* frequency of the constructor, and what set_doppler_freq is called with (Hz)
Frequency == 145800000
TargetFreqs == {437500000}
DopplerShifts == {-5000, 0, 5000}

notradio == <<linkvars, cmdvars, codecvars, simvars, netvars, uivars, passvars, tlevars>>

\* lines 7-15: the import of rtlsdr goes through or raises
RadioImport(found) ==
    /\ rpc = "import"
    /\ HAS_SDR' = found
    /\ rpc' = "new"
    /\ UNCHANGED <<mock_mode, sdr, dev_freq, radio_log, notradio>>

\* lines 25-30: RadioCore(mock_mode = requested)
RadioNew(requested) ==
    /\ rpc = "new"
    /\ mock_mode' = (requested \/ ~HAS_SDR)
    /\ sdr' = "None"
    /\ rpc' = IF mock_mode' THEN "ready" ELSE "open"
    /\ radio_log' = [radio_log EXCEPT !.requested = requested]
    /\ UNCHANGED <<HAS_SDR, dev_freq, notradio>>

\* line 32: RtlSdr() returns a device or raises; lines 38-41 if it raises
RadioOpen_NoFallback(opened) ==
    /\ rpc = "open"
    /\ IF opened
       THEN /\ sdr' = "open"
            /\ rpc' = "configure"
            /\ UNCHANGED <<mock_mode, radio_log>>
       ELSE /\ rpc' = "ready"
            /\ radio_log' = [radio_log EXCEPT !.failed = "open"]
            /\ UNCHANGED <<mock_mode, sdr>>
    /\ UNCHANGED <<HAS_SDR, dev_freq, notradio>>
RadioOpen(opened) ==
    /\ rpc = "open"
    /\ IF opened
       THEN /\ sdr' = "open"
            /\ rpc' = "configure"
            /\ UNCHANGED <<mock_mode, radio_log>>
       ELSE /\ mock_mode' = TRUE
            /\ rpc' = "ready"
            /\ radio_log' = [radio_log EXCEPT !.failed = "open"]
            /\ UNCHANGED sdr
    /\ UNCHANGED <<HAS_SDR, dev_freq, notradio>>

\* lines 33-37: the four settings go through, or one raises; lines 38-41 then
RadioConfigure(done) ==
    /\ rpc = "configure"
    /\ rpc' = "ready"
    /\ IF done
       THEN /\ dev_freq' = Frequency
            /\ UNCHANGED <<mock_mode, radio_log>>
       ELSE /\ mock_mode' = TRUE
            /\ dev_freq' \in {dev_freq, Frequency}
            /\ radio_log' = [radio_log EXCEPT !.failed = "configure"]
    /\ UNCHANGED <<HAS_SDR, sdr, notradio>>

\* What a call that reads self.sdr.<attribute> leaves in the history.
Deref(log) ==
    [log EXCEPT !.calls = @ + 1,
                !.touched = @ \/ sdr # "None",
                !.none_deref = @ \/ sdr = "None"]

\* lines 46-59
set_doppler_freq(target_freq, doppler_shift) ==
    /\ rpc = "ready"
    /\ radio_log.calls < MaxRadioCalls
    /\ LET corrected_freq == target_freq + doppler_shift
       IN  IF ~mock_mode
           THEN /\ radio_log' = Deref(radio_log)
                /\ dev_freq' = IF sdr = "open" THEN corrected_freq ELSE dev_freq
           ELSE /\ radio_log' = [radio_log EXCEPT !.calls = @ + 1]
                /\ UNCHANGED dev_freq
    /\ UNCHANGED <<HAS_SDR, rpc, mock_mode, sdr, notradio>>

\* lines 61-69
get_samples ==
    /\ rpc = "ready"
    /\ radio_log.calls < MaxRadioCalls
    /\ radio_log' = IF ~mock_mode THEN Deref(radio_log)
                    ELSE [radio_log EXCEPT !.calls = @ + 1]
    /\ UNCHANGED <<HAS_SDR, rpc, mock_mode, sdr, dev_freq, notradio>>

\* lines 71-77
stop ==
    /\ rpc = "ready"
    /\ radio_log.calls < MaxRadioCalls
    /\ IF ~mock_mode /\ sdr # "None"
       THEN /\ sdr' = "closed"
            /\ radio_log' = [Deref(radio_log) EXCEPT !.stopped = TRUE]
       ELSE /\ UNCHANGED sdr
            /\ radio_log' = [radio_log EXCEPT !.calls = @ + 1, !.stopped = TRUE]
    /\ UNCHANGED <<HAS_SDR, rpc, mock_mode, dev_freq, notradio>>

RadioCore ==
    \/ \E found \in BOOLEAN : RadioImport(found)
    \/ \E requested \in BOOLEAN : RadioNew(requested)
    \/ \E opened \in BOOLEAN : RadioOpen(opened)
    \/ \E done \in BOOLEAN : RadioConfigure(done)
    \/ \E f \in TargetFreqs, d \in DopplerShifts : set_doppler_freq(f, d)
    \/ get_samples
    \/ stop

SpecRadio == Init /\ [][RadioCore]_vars

\* =================================================================== claims
LoopPcs == {"loop", "recv", "write"}

\* No receiver thread is in the middle of a datagram.
RxQuiet == \A t \in Threads : rxpc[t] # "write"

\* Thread t takes a step of RxWrite.
WriteStep(t) == rxpc[t] = "write" /\ rx_step'[t] # rx_step[t]

\* Some reader takes a step of Read.
ReadStep == \E r \in Readers : rdpc'[r] # rdpc[r] \/ rd_snap'[r] # rd_snap[r]

\* The telemetry values a decodable payload carries, by field.
Carried(d) ==
    IF IsBackend
    THEN [f \in DOMAIN d.value.items \cap {"pitch", "roll", "accel_z", "light", "status"}
            |-> d.value.items[f]]
    ELSE [pitch |-> FloatValue(PartsOf(d)[2]), roll |-> FloatValue(PartsOf(d)[3]),
          light |-> IntValue(PartsOf(d)[4]), accel_z |-> FloatValue(PartsOf(d)[5])]

\* The stored telemetry, by field.
Stored(gs, ct) == IF IsBackend THEN gs.telemetry ELSE ct

\* C1: once the receiver is through with a valid datagram stamped T0 = good_time,
\* a state read that returns while now - T0 <= timeout returns connected = true.
C1_FreshReadsConnected ==
    \A r \in Readers :
        (/\ rdpc[r] = "ret"
         /\ RxQuiet
         /\ good_time > 0
         /\ now - good_time <= Timeout) => Connected

\* C2: the telemetry a reader has copied out of the dictionary is the telemetry
\* the dictionary held between two updates of the receiver, never a mixture.
C2_NoTornRead ==
    \A r \in Readers : rdpc[r] = "done" => Tel(rd_snap[r]) \in hist

\* C3: no step the receiver takes for a datagram that fails to decode changes
\* the shared dictionary.
C3_MalformedLeavesState ==
    [][\A t \in Threads :
          (WriteStep(t) /\ ~Decodable(Datagrams[rx_data[t]]))
              => UNCHANGED statevars]_vars

\* C4: a receiver thread that has entered its loop stays in it, on the port it
\* bound, whatever arrives (malformed datagrams and receive timeouts included),
\* and when it is through with a valid datagram the dictionary holds the values
\* the datagram carried.
C4_LoopSurvives ==
    [][\A t \in Threads :
          /\ rxpc[t] \in LoopPcs => (rxpc'[t] \in LoopPcs /\ port_owner' = t)
          /\ (WriteStep(t) /\ rxpc'[t] # "write" /\ Decodable(Datagrams[rx_data[t]]))
                => \A f \in DOMAIN Carried(Datagrams[rx_data[t]]) :
                      Stored(ground_state', current_telemetry')[f]
                          = Carried(Datagrams[rx_data[t]])[f]]_vars

\* A valid datagram has been stored right after two malformed ones were dropped
\* (udp_bridge: and after a receive timeout), with the values it carried.
C4_Witness ==
    /\ Len(rx_log) >= 3
    /\ rx_log[Len(rx_log) - 2] = "bad"
    /\ rx_log[Len(rx_log) - 1] = "bad"
    /\ rx_log[Len(rx_log)] = "ok"
    /\ \E t \in Threads : rxpc[t] = "recv"
    /\ IF IsBackend
       THEN /\ ground_state.telemetry.pitch = 15
            /\ ground_state.telemetry.status = StatusOn
       ELSE /\ ntimeout
            /\ current_telemetry.pitch = 15
            /\ current_telemetry.roll = -20
            /\ current_telemetry.light = 3
            /\ current_telemetry.accel_z = 97

\* C5: a store the receiver makes for a decodable payload leaves every telemetry
\* field the payload does not carry at its previous value.
C5_AbsentFieldsKept ==
    [][\A t \in Threads :
          (WriteStep(t) /\ Decodable(Datagrams[rx_data[t]]))
              => \A f \in {"pitch", "roll", "accel_z", "light"}
                         \ DOMAIN Carried(Datagrams[rx_data[t]]) :
                    Stored(ground_state', current_telemetry')[f]
                        = Stored(ground_state, current_telemetry)[f]]_vars

\* C6: a read that begins more than the timeout after the last valid datagram,
\* with none decoded since, returns connected = false and the telemetry of that
\* last valid datagram.
C6_StalledReadsDisconnected ==
    \A r \in Readers :
        (rdpc[r] = "ret" /\ rd_late[r] /\ good_time > 0)
            => (~Connected /\ Tel(Flat) = good_tel)

\* C7: a state read leaves every field of the shared dictionary unchanged.
C7_ReadsLeaveState == [][ReadStep => UNCHANGED statevars]_vars

\* C8: when the receiver's bind failed, start_listener has not recorded the
\* listener as running.
C8_BindFailureReported ==
    \A t \in Threads : rxpc[t] = "dead" => ~_listener_running

\* C9: an iteration of the receive loop that begins with the shutdown signal
\* raised ends the loop.
C9_StopEndsLoop ==
    [][\A t \in Threads :
          (stop_signal /\ rxpc[t] = "loop" /\ rxpc'[t] # "loop")
              => rxpc'[t] = "stopped"]_vars

\* The datagrams on the wire that call k emitted.
DatagramsOf(k) == {i \in 1..Len(wire) : wire[i].call = k}

\* C10 as stated: every send_command call that has returned emitted exactly one
\* datagram, to the command destination, with the UTF-8 bytes of its action, and
\* returned success.
C10_EveryCallSends ==
    \A j \in 1..Len(cmd_log) :
        /\ cmd_log[j].status = "success"
        /\ Cardinality(DatagramsOf(cmd_log[j].call)) = 1
        /\ \A i \in DatagramsOf(cmd_log[j].call) :
              /\ wire[i].dest = CommandDest
              /\ wire[i].payload = Utf8Encode(cmd_log[j].action)

\* C10 amended: a call that returned success emitted exactly one datagram, to
\* the command destination, with exactly the UTF-8 bytes of its action,
\* recognized or not, listened to or not; a call whose socket creation,
\* encoding or send failed returned an error and emitted none; every datagram
\* on the wire is the whole payload of one call.
C10_OneDatagramPerSuccess ==
    /\ \A j \in 1..Len(cmd_log) :
          IF cmd_log[j].status = "success"
          THEN /\ Cardinality(DatagramsOf(cmd_log[j].call)) = 1
               /\ \A i \in DatagramsOf(cmd_log[j].call) :
                     /\ wire[i].dest = CommandDest
                     /\ wire[i].payload = Utf8Encode(cmd_log[j].action)
          ELSE cmd_log[j].stage \in {"socket", "sendto"}
                  => DatagramsOf(cmd_log[j].call) = {}
    /\ \A i \in 1..Len(wire) :
          \/ \E j \in 1..Len(cmd_log) :
                /\ cmd_log[j].call = wire[i].call
                /\ wire[i].payload = Utf8Encode(cmd_log[j].action)
          \/ \E c \in CmdCallers :
                /\ cmdpc[c] \in {"print", "success", "error"}
                /\ cmd_id[c] = wire[i].call
                /\ wire[i].payload = Utf8Encode(cmd_action[c])

\* Two overlapping calls have returned success: one sent an unrecognized,
\* non-ASCII action with nothing listening, and the call begun later put its
\* datagram on the wire first.
C10_Witness ==
    \E i, j \in 1..Len(wire) :
        /\ i < j
        /\ wire[i].call > wire[j].call
        /\ ~cmd_listening
        /\ wire[j].payload = <<195, 169, 33>>
        /\ wire[i].payload = <<76, 69, 68, 95, 79, 78>>
        /\ \A k \in {wire[i].call, wire[j].call} :
              \E n \in 1..Len(cmd_log) :
                  cmd_log[n].call = k /\ cmd_log[n].status = "success"

\* Every send_command call has returned.
CmdQuiet == \A c \in CmdCallers : cmdpc[c] = "idle"

\* The calls that have returned with the given status.
Returned(status) == {j \in 1..Len(cmd_log) : cmd_log[j].status = status}

\* C11: send_command sends once and never again, and reports every local
\* failure as an error result, so that once every call has returned the number
\* of datagrams emitted is the number of calls that returned success.
C11_EmittedEqualsSuccess ==
    CmdQuiet => Len(wire) = Cardinality(Returned("success"))

\* C12: in every state of the link, whatever datagrams were received, the stored
\* status has led in {ON, OFF}, solar in {DEPLOYED, RETRACTED} and mode in
\* {MANUAL, AUTO}.
C12_StatusInEnums ==
    IsBackend =>
        /\ ground_state.telemetry.status.led \in {"ON", "OFF"}
        /\ ground_state.telemetry.status.solar \in {"DEPLOYED", "RETRACTED"}
        /\ ground_state.telemetry.status.mode \in {"MANUAL", "AUTO"}

\* The listener threads that have been started.
Started == {t \in Threads : rxpc[t] # "none"}

\* C13: whatever start_listener calls were made, concurrent ones included, at
\* most one listener thread has been started, and so at most one thread holds
\* the inbound port.
C13_OneListener ==
    /\ Cardinality(Started) <= 1
    /\ \A t \in Threads : rxpc[t] \in LoopPcs => port_owner = t

\* C14: a read that ran with no datagram step and no tick since it began, after
\* a valid datagram stamped T0 = good_time, returns connected = true exactly
\* when now - T0 <= timeout (2 s backend, 3 s udp_bridge), boundary included.
C14_ConnectedIffFresh ==
    \A r \in Readers :
        (rdpc[r] = "ret" /\ rd_alone[r] /\ good_time > 0)
            => (Connected <=> now - good_time <= Timeout)

\* The telemetry the shared dictionary is created with.
DefaultTel == Tel(FlatOf(InitGroundState, InitTelemetry))

\* No valid datagram has been decoded, and none is being applied.
NoneDecoded ==
    /\ good_time = 0
    /\ \A t \in Threads : rxpc[t] = "write" => ~Decodable(Datagrams[rx_data[t]])

\* C15: a state read made before any datagram has been decoded returns
\* connected = false and the default telemetry the dictionary was created with.
C15_DefaultsUntilDecoded ==
    \A r \in Readers :
        (rdpc[r] = "ret" /\ NoneDecoded) => (~Connected /\ Tel(Flat) = DefaultTel)

\* ------------------------------------------------------------ frame codec
\* parse_frame has just returned for the buffer at hand.
ParseStep == parsed' # Unparsed /\ (parsed' # parsed \/ packet_count' # packet_count)

\* The frame is the one built from frame_in, byte for byte.
Intact == frame_in # NoInput /\ frame = Build(frame_in)

\* C16 as stated: decoding the frame built from x yields the scaled values of x
\* and the message of x itself; a frame of get_mock_packet decodes, never to
\* None, with msg = ALL_OK.
C16_RoundTripExact ==
    (parsed # Unparsed /\ Intact)
        => parsed = [kind |-> "dict",
                     voltage |-> frame_in.battery_voltage * 10,
                     current |-> frame_in.panel_current,
                     temp |-> frame_in.internal_temp - 20,
                     msg |-> frame_in.status_msg]

\* C16 amended: decoding the frame built from x yields the scaled values of x
\* and the message of x without its trailing NUL characters; a frame of
\* get_mock_packet decodes, never to None, with msg = ALL_OK.
C16_RoundTripModuloNul ==
    (parsed # Unparsed /\ Intact)
        => /\ parsed = [kind |-> "dict",
                        voltage |-> frame_in.battery_voltage * 10,
                        current |-> frame_in.panel_current,
                        temp |-> frame_in.internal_temp - 20,
                        msg |-> NullStripped(frame_in.status_msg)]
           /\ frame_in.kind = "mock" => parsed.msg = ALL_OK

\* A frame built from the largest voltage and temperature and a message that
\* ends in NUL has been decoded, after a first frame was.
C16_Witness ==
    /\ Intact
    /\ frame_in.status_msg = <<65, 0>>
    /\ frame_in.battery_voltage = 65535
    /\ frame_in.internal_temp = 255
    /\ parsed.kind = "dict"
    /\ parsed.voltage = 655350
    /\ parsed.temp = 235
    /\ parsed.msg = <<65>>
    /\ packet_count = 2

\* Bytes without the trailing spaces and NULs.
RECURSIVE PaddingTrimmed(_)
PaddingTrimmed(bs) ==
    IF bs # <<>> /\ bs[Len(bs)] \in {0, 32}
    THEN PaddingTrimmed(SubSeq(bs, 1, Len(bs) - 1))
    ELSE bs

\* C17: for a buffer of 19 bytes or more that opens with the sync word (and
\* whose text field is UTF-8), parse_frame returns raw voltage * 0.01, raw
\* current * 0.001, raw temperature - 20, unclamped, and the text field without
\* its space/NUL padding.
C17_ScaledAndTrimmed ==
    (/\ parsed # Unparsed
     /\ Len(frame) >= FrameLen
     /\ SubSeq(frame, 1, 4) = SyncWord
     /\ Utf8Valid(SubSeq(frame, 10, 19)))
        => parsed = [kind |-> "dict",
                     voltage |-> (256 * frame[5] + frame[6]) * 10,
                     current |-> 256 * frame[7] + frame[8],
                     temp |-> frame[9] - 20,
                     msg |-> Utf8Decode(PaddingTrimmed(SubSeq(frame, 10, 19)))]

C19_SyncMismatchDistinct ==
    (/\ parsed # Unparsed
     /\ Len(frame) >= FrameLen
     /\ SubSeq(frame, 1, 4) # SyncWord)
        => /\ parsed.kind # "dict"
           /\ parsed # ParseFrameResult(SyncWord)

\* C20: the text receiver applies a line as a whole or not at all: whenever it
\* is between two lines, the telemetry and the time stamp it holds are those of
\* the last line that passed the tag, field count and number tests.
C20_LineAppliedWhole ==
    (~IsBackend /\ RxQuiet)
        => /\ Tel(Flat) = good_tel
           /\ LastPacketTime = good_time

\* C22: in the simulated device, once the command listener is through with
\* DEPLOY_SOLAR (RETRACT_SOLAR) and until the next command arrives, mode is
\* MANUAL and solar is DEPLOYED (RETRACTED), whatever the simulation loop does
\* in between.
C22_PanelCommandHolds ==
    /\ sim_last = DEPLOY_SOLAR
          => state.status.mode = "MANUAL" /\ state.status.solar = "DEPLOYED"
    /\ sim_last = RETRACT_SOLAR
          => state.status.mode = "MANUAL" /\ state.status.solar = "RETRACTED"

\* A step of the command listener.
ListenerStep == <<lpc, command, sim_last>>' # <<lpc, command, sim_last>>

\* The fields of state["status"] a command names.
Named(cmd) ==
    IF cmd \in {LED_ON, LED_OFF} THEN {"led"}
    ELSE IF cmd \in {DEPLOY_SOLAR, RETRACT_SOLAR} THEN {"solar", "mode"}
    ELSE IF cmd = AUTO_SOLAR THEN {"mode"}
    ELSE {}

\* C24: the device's command handler changes only what each command names:
\* LED_ON / LED_OFF set led and nothing else, DEPLOY_SOLAR / RETRACT_SOLAR
\* store solar and then store mode = MANUAL, AUTO_SOLAR sets mode = AUTO and
\* nothing else, PING and every other payload leave the whole state as it
\* was; and led, solar and mode never leave their enumerations.
C24_OnlyNamedFields ==
    /\ [](state.status \in SimStatuses)
    /\ [][ListenerStep =>
            LET cmd == IF lpc = "recv" THEN <<>> ELSE command
            IN  /\ \A f \in {"led", "solar", "mode"} \ Named(cmd) :
                      state'.status[f] = state.status[f]
                /\ [state' EXCEPT !.status = state.status] = state
                /\ lpc = "first" /\ cmd = LED_ON => state'.status.led = "ON"
                /\ lpc = "first" /\ cmd = LED_OFF => state'.status.led = "OFF"
                /\ lpc = "first" /\ cmd = DEPLOY_SOLAR
                      => state'.status.solar = "DEPLOYED"
                           /\ state'.status.mode = state.status.mode
                /\ lpc = "first" /\ cmd = RETRACT_SOLAR
                      => state'.status.solar = "RETRACTED"
                           /\ state'.status.mode = state.status.mode
                /\ lpc = "second"
                      => state'.status.mode = "MANUAL"
                           /\ state'.status.solar = state.status.solar
                /\ lpc = "first" /\ cmd = AUTO_SOLAR => state'.status.mode = "AUTO"
                /\ lpc \in {"recv", "done"} => state' = state]_vars

\* The listener is through with a DEPLOY_SOLAR that found the device in AUTO
\* with its LED on.
C24_Witness ==
    /\ sim_last = DEPLOY_SOLAR
    /\ state.status = [led |-> "ON", solar |-> "DEPLOYED", mode |-> "MANUAL"]
    /\ state.light = LightOf(TRUE, 402)

\* A step of the simulation loop.
LoopStep == loopvars' # loopvars

\* C25: hysteresis of the simulation loop.  While mode = AUTO the loop sets
\* solar to DEPLOYED only when sun_intensity > 400 and to RETRACTED only when
\* sun_intensity < 300, leaving it as it was from 300 to 400; while mode =
\* MANUAL no step of the loop changes solar.
C25_Hysteresis ==
    [][LoopStep =>
         /\ state.status.mode = "MANUAL"
               => state'.status.solar = state.status.solar
         /\ state.status.mode = "AUTO" /\ state'.status.solar # state.status.solar
               => \/ state'.status.solar = "DEPLOYED" /\ sun_intensity > 400
                  \/ state'.status.solar = "RETRACTED" /\ sun_intensity < 300]_vars

\* The LED command send_command emitted last ("none": no LED command yet).
FinalLed ==
    LET leds == {i \in 1..Len(wire) :
                    wire[i].payload \in {Utf8Encode(LED_ON), Utf8Encode(LED_OFF)}}
        last == CHOOSE i \in leds : \A j \in leds : j <= i
    IN  IF leds = {} THEN "none"
        ELSE IF wire[last].payload = Utf8Encode(LED_ON) THEN "ON" ELSE "OFF"

\* C23: end to end, with the device's two loops and the backend's receiver
\* running and no datagram lost: if LED_ON is the last LED command
\* dispatched, then from some moment on every state read finds
\* telemetry.status.led = ON; and the same for LED_OFF and OFF.
C23_LastLedWins ==
    /\ (<>[](FinalLed = "ON") /\ <>[](port_owner = 1))
          => <>[](ground_state.telemetry.status.led = "ON")
    /\ (<>[](FinalLed = "OFF") /\ <>[](port_owner = 1))
          => <>[](ground_state.telemetry.status.led = "OFF")

\* C23 with the order of the command datagrams kept: if the device takes the
\* LED commands in the order send_command emitted them, the LED command
\* emitted last is the one every state read shows from some moment on.
C23_LastLedWinsInOrder ==
    /\ ([]~swapped /\ <>[](FinalLed = "ON") /\ <>[](port_owner = 1))
          => <>[](ground_state.telemetry.status.led = "ON")
    /\ ([]~swapped /\ <>[](FinalLed = "OFF") /\ <>[](port_owner = 1))
          => <>[](ground_state.telemetry.status.led = "OFF")

\* LED_OFF then LED_ON were emitted and taken in that order; a datagram the
\* device sent before it took LED_ON has reached the backend after one it
\* sent later, and the backend holds ON again.
C23_Witness ==
    /\ FinalLed = "ON"
    /\ ~swapped
    /\ heard = {1, 2}
    /\ wire[1].payload = Utf8Encode(LED_OFF)
    /\ state.status.led = "ON"
    /\ air = {}
    /\ rxpc[1] = "recv"
    /\ ground_state.telemetry.status.led = "ON"
    /\ \E tel \in hist : tel[5].led = "OFF" /\ tel[4] = LightOf(FALSE, Daylight)

\* A step of send_command, and a step of the receiver.
CmdStep == cmdvars' # cmdvars

RxStep == <<rxpc, rx_data, rx_step, port_owner, statevars>>' #
              <<rxpc, rx_data, rx_step, port_owner, statevars>>

\* C21: the command path shares no state with the receive path.  A step of
\* send_command, in a call that succeeds or in one that fails, leaves the
\* link state (telemetry, last_packet_time, connected), the receiver and its
\* inbound socket as they were; a step of the receiver leaves what
\* send_command has emitted and is about to emit as it was; and no datagram
\* send_command emits goes to the port the receiver is bound to.
C21_PathsApart ==
    /\ [](\A i \in 1..Len(wire) :
            /\ wire[i].dest[2] # UDP_RX_PORT
            /\ \E a \in LedCommands : wire[i].payload = Utf8Encode(a))
    /\ [][/\ CmdStep => UNCHANGED <<statevars, rxpc, rx_data, rx_step, port_owner>>
          /\ RxStep => UNCHANGED cmdvars]_vars

\* Both paths have run: the receiver has stored a datagram whole, one call
\* has returned success and one has returned an error.
C21_Witness ==
    /\ ground_state.connected
    /\ ground_state.telemetry.status.led = "ON"
    /\ RxQuiet
    /\ Len(wire) = 1
    /\ Len(cmd_log) = 2
    /\ cmd_log[1].status = "error"
    /\ cmd_log[2].status = "success"

\* C26: the link state holds the values of the datagram that arrived last,
\* whatever the order in which the datagrams were sent: whenever the receiver
\* is between datagrams, telemetry is what the last datagram it took carried.
\* Nothing in the receiver compares a datagram with the ones before it.
C26_LastArrivalWins ==
    (last_rx # NoInput /\ rxpc[1] # "write")
       => ground_state.telemetry =
             [pitch |-> last_rx.pitch, roll |-> last_rx.roll,
              accel_z |-> last_rx.accel_z, light |-> last_rx.light,
              status |-> last_rx.status]

\* The device has taken LED_ON and nothing else, so every datagram it sent
\* with led = OFF is older than every one with led = ON; the backend has held
\* ON, then took a datagram with OFF, and holds OFF while the device is ON.
C26_Witness ==
    /\ rxpc[1] = "recv"
    /\ lpc = "recv"
    /\ \E i \in {1, 2} : heard = {i} /\ wire[i].payload = Utf8Encode(LED_ON)
    /\ state.status.led = "ON"
    /\ last_rx # NoInput
    /\ last_rx.status.led = "OFF"
    /\ ground_state.telemetry.status.led = "OFF"
    /\ \E tel \in hist : tel[5].led = "ON"

\* The device's solar panel is deployed according to this status dictionary.
Deployed(status) ==
    "solar" \in DOMAIN status
        /\ status.solar \in {PyBool(TRUE), PyStr("DEPLOYED")}

\* C27: every page shows the panel deployed exactly when the status it was
\* handed says deployed, in either representation: run_hil_telemetry's
\* solar_status is DEPLOYED, frontend's Power is Solar and its indicator is
\* PANELS: OPEN if and only if solar is true or "DEPLOYED".
C27_SolarShownAsIs ==
    /\ hil_mode.drawn
          => (hil_mode.solar_status = PyStr("DEPLOYED") <=> Deployed(hil_mode.status))
    /\ frontend.drawn
          => /\ frontend.power = "Solar" <=> Deployed(frontend.status)
             /\ frontend.panels = "PANELS: OPEN" <=> Deployed(frontend.status)

\* The SET events that close a full cycle: a RISE came before, with no SET
\* between the two.
Closing(evs) ==
    {j \in 1..Len(evs) :
        /\ evs[j][2] = SET
        /\ \E i \in 1..(j - 1) :
              /\ evs[i][2] = RISE
              /\ \A k \in (i + 1)..(j - 1) : evs[k][2] # SET}

\* C28: get_next_passes returns exactly one pass per SET (LOS) event that a
\* RISE (AOS) event preceded since the previous SET, in event order; a SET
\* with no RISE before it and a RISE with no SET after it yield no pass;
\* after every SET the accumulator is empty; and every pass returned has aos,
\* los and duration_str, with aos before los.
C28_OnePassPerCycle ==
    /\ ppc = "done"
          => /\ Len(pass_list) = Cardinality(Closing(events))
             /\ \A n \in 1..Len(pass_list) :
                   /\ {"aos", "los", "duration_str"} \subseteq DOMAIN pass_list[n]
                   /\ pass_list[n].aos < pass_list[n].los
                   /\ \E j \in Closing(events) :
                         /\ pass_list[n].los = TimeOf(events, j)
                         /\ Cardinality({h \in Closing(events) : h <= j}) = n
    /\ ppc # "idle" /\ pass_i > 0 /\ events[pass_i][2] = SET => current_pass = <<>>

\* The window opened during a pass and closed during another: a SET without
\* its RISE, a full cycle, a RISE without its SET; one pass is returned.
C28_Witness ==
    /\ ppc = "done"
    /\ Len(events) = 4
    /\ events[1][2] = SET /\ events[2][2] = RISE
    /\ events[3][2] = SET /\ events[4][2] = RISE
    /\ Len(pass_list) = 1

\* An _update_tles call has come to its end.
TleEnded == tle_calls > 0 /\ tpc = "idle"

\* C29: when an _update_tles call has ended, it attempted a download if and
\* only if the cache file was missing or its age was above 86400 seconds; the
\* file differs from what it was only if the response status was 200; after
\* a response with another status, or an exception of the request, the file
\* is what it was; and the call returned, no exception left it.
C29_DownloadWhenStale ==
    TleEnded
        => /\ tle_hist.attempted
                 <=> \/ ~tle_hist.before.exists
                     \/ tle_hist.at - tle_hist.before.mtime > 86400
           /\ tle_file # tle_hist.before
                 => tle_hist.got = "response" /\ response.status_code = 200
           /\ (\/ tle_hist.got = "exception"
               \/ tle_hist.got = "response" /\ response.status_code # 200)
                 => tle_file = tle_hist.before
           /\ tle_hist.outcome = "returned"

\* A call found the cache a second over a day old, was answered 404 and
\* ended with the cache as it was.
C29_Witness ==
    /\ TleEnded
    /\ tle_hist.before.exists
    /\ tle_hist.at - tle_hist.before.mtime = 86401
    /\ tle_hist.got = "response"
    /\ response.status_code = 404
    /\ tle_file = tle_hist.before
    /\ tle_file.content = "tle_1"

\* C30: in every state of a constructed RadioCore, mock_mode = false implies
\* that sdr is not None but the device the constructor opened, open until
\* stop closes it, so no call reads an attribute of None; and when the driver
\* is absent, mock mode was requested, or opening or configuring the device
\* failed, mock_mode is true and no call has touched the device.
C30_RealModeHasDevice ==
    rpc = "ready"
        => /\ ~mock_mode
                 => /\ sdr # "None"
                    /\ sdr = "closed" => radio_log.stopped
           /\ ~radio_log.none_deref
           /\ (~HAS_SDR \/ radio_log.requested \/ radio_log.failed # "none")
                 => mock_mode /\ ~radio_log.touched

\* A RadioCore on a real device has been retuned by a Doppler shift.
C30_Witness ==
    /\ rpc = "ready"
    /\ ~mock_mode
    /\ sdr = "open"
    /\ radio_log.calls = 2
    /\ dev_freq = 437505000

\* C31: on one TelemetryDecoder packet_count is the number of parse_frame
\* calls that returned a decoded frame: 0 at first, one more after each call
\* that returned a frame, and what it was after each call that returned None.
C31_CountIsDecoded == packet_count = decoded

\* A frame was decoded, and a later call on a damaged buffer returned None
\* and left the count at 1.
C31_Witness ==
    /\ parsed = None
    /\ frame # <<>>
    /\ decoded = 1
    /\ packet_count = 1

====
